---- MODULE Spec2Model ----
(***************************************************************************)
(* A model of bandwidth-monitor's aggregation engine:                      *)
(*   - the kernel-counter collector   (src/collector/collector.go),        *)
(*   - the capture (SPAN) collector   (src/unnamed/part_000),              *)
(*   - the top-talkers tracker        (src/unnamed/part_004).              *)
(*                                                                         *)
(* The two collectors are two versions of package collector, of which a    *)
(* process holds one; the tracker shares no state with either.  A          *)
(* behaviour therefore follows one of the three (variable focus, fixed by  *)
(* Init), so that the reachable states are the sum, not the product, of    *)
(* the three state spaces.  All three read the same clocks.                *)
(*                                                                         *)
(* The collectors' clock counts seconds, the tracker's half minutes.  A    *)
(* time.Time value is a record [wall, mono]: Go's time.Now() carries a     *)
(* wall-clock and a monotonic reading; Sub uses the monotonic one,         *)
(* UnixMilli the wall one.                                                 *)
(***************************************************************************)
EXTENDS Integers, Sequences, FiniteSets, Bags, TLC

\* ------------------------------------------------------------------ bounds
HistoryPruneAt == 2     \* historyPruneAt, 86400 in the source
MaxFrames == 2          \* frames the capture handles deliver in one behaviour
Uint64Mod == 4096       \* the width of a counter, 2^64 in the source
Precision == 10         \* bits in the significand of a float64, 53 in the source
SparkLen == 28          \* the longest run of points a sparkline is drawn from
MaxPolls == 4           \* the polls of an external backend that are followed

\* ------------------------------------------------------- program constants
PollInterval == 1       \* pollInterval, rateInterval: one second
IPv6HeaderLen == 40     \* "IPv6 payload length excludes header"
\* historyMaxAge = 24h = 86400 * pollInterval: the source's ratio is kept
HistoryMaxAge == HistoryPruneAt * PollInterval

MaxBuckets == 2         \* maxAge / bucketSize, 1440 in the source
BucketSize == 2         \* bucketSize: one minute, in the tracker's half minutes
TalkerMaxAge == MaxBuckets * BucketSize

Ifaces == {"eth0", "wg0"}

VARIABLES
    focus,        \* the component followed: "proc" | "span" | "talkers", or
                  \* "sparklines" (the resampling alone), "locks" (the
                  \* tracker lock by lock), "dns" (resolveIP lock by lock),
                  \* "geo" (DB.Lookup lock by lock), "backend" (a
                  \* polling client of an external backend), "types" (the
                  \* category of an interface)
    wall,         \* the wall clock
    mono,         \* the monotonic clock
    clockStepped, \* TRUE once the wall clock was set back
    duplicated,   \* TRUE once a ticker's tick was received within the clock
                  \* reading of the tick before it
    stopCh,       \* TRUE once Stop() closed the channel
    ticks,        \* ticks the followed component has served: polls (proc),
                  \* rateLoop ticks (span), bucket rotations (talkers)
    regular,      \* TRUE while every tick was served in the period it was
                  \* sent in, none failed, every poll saw the same interfaces
                  \* and the clock had no fault (ClockStep, DuplicateTick)
    log,          \* the bag of the frames delivered so far, each with the
                  \* number of bucket rotations that preceded it
    \* kernel-counter collector
    procPc,       \* "new" | "loop" | "done": Run's position
    procTick,     \* TRUE when the ticker's channel holds a tick
    current,      \* name -> InterfaceStat
    previous,     \* name -> rawStat
    history,      \* name -> sequence of HistoryPoint
    pollErr,      \* TRUE when the last poll wrote "collector: ..." to stderr
    heap,         \* the backing arrays of the Addrs slices: reference -> strings
    \* capture collector
    device,       \* the configured capture device, "" when unset
    localNets,    \* the configured LOCAL_NETS
    spanPc,       \* "new" | "capture" | "done": Run's position
    ratePc,       \* "none" | "spawned" | "loop" | "done": rateLoop's position
    rateTick,     \* TRUE when rateLoop's ticker holds a tick
    acc,          \* the accumulators rxBytes, txBytes, rxPackets, txPackets
    stat,         \* the published InterfaceStat
    spanHistory,  \* Collector.history
    prevSample,   \* rateLoop's prevRx, prevTx, prevTime
    \* top-talkers tracker
    trackPc,      \* "new" | "run" | "done": Run's position
    capPc,        \* "none" | "capture" | "done": captureDevice's position
    rotPc,        \* "none" | "loop" | "done": rotateBuckets' position
    rotTick,      \* TRUE when rotateBuckets' ticker holds a tick
    rotStart,     \* the monotonic time at which that ticker was made
    buckets,      \* the sealed buckets, oldest first
    tcurrent,     \* Tracker.current: <<>> for nil, else <<the open bucket>>
    \* a caller of a collector's GetAll or GetHistory
    held,         \* the value a call returned (of: "none" | "GetAll" |
                  \* "GetHistory"), as the caller has it now; or the points
                  \* selected for a sparkline ("points") and the line drawn
                  \* from them ("line")
    \* the tracker's goroutines, lock by lock
    tpc,          \* goroutine -> its position
    mu,           \* Tracker.mu: the goroutine holding it for writing, or
                  \* "none", and the goroutines holding it for reading
    pkt,          \* the packet processPacket has parsed
    calls,        \* query caller -> the addresses it has still to resolve,
                  \* the one it resolves and the name resolveIP returned last
    dnsCacheMu,   \* Tracker.dnsCacheMu: the goroutine holding it for
                  \* writing, or "none"
    dnsCache,     \* Tracker.dnsCache: address -> name
    lookups,      \* the reverse lookups dispatched: address, number, position
    placed,       \* address -> how many times its placeholder was written
    \* the geo cache, lock by lock
    geoMu,        \* DB.mu: the caller holding it for writing, or "none"
    geoCache,     \* DB.cache: key -> *Result
    geoLocal,     \* caller -> the *Result it has made or was returned
    geoCount,     \* the *Results allocated, and for each key the lookups in
                  \* the databases and the writes of its cache entry
    \* a polling client of an external backend
    client,       \* its kind, the polls it has made, its snapshot (stats or
                  \* summary, <<>> for nil), detected and unifiOS, and how
                  \* often its stopCh was closed
    \* the category of an interface
    ifaceTypeCache, \* name -> category
    ifaceStat     \* the interface followed: its name, its IfaceType in
                  \* c.current (<<>>: not in c.current), the detections made
                  \* for it, what sysfs said at the last of them, and the
                  \* polls that have seen it

clockVars == <<wall, mono, clockStepped, duplicated>>
procVars == <<procPc, procTick, current, previous, history, pollErr, heap, heap>>
spanCfg == <<device, localNets>>
spanVars == <<spanPc, ratePc, rateTick, acc, stat, spanHistory, prevSample>>
trackVars == <<trackPc, capPc, rotPc, rotTick, rotStart, buckets, tcurrent>>
obsVars == <<ticks, regular>>
geoVars == <<geoMu, geoCache, geoLocal, geoCount>>
\* the variables of the components followed on their own
typeVars == <<ifaceTypeCache, ifaceStat>>
sideVars == <<geoVars, client, typeVars>>
lockVars == <<tpc, mu, pkt, calls, dnsCacheMu, dnsCache, lookups, placed, sideVars>>
\* what the steps of the collectors and of their callers leave alone
fixed == <<focus, lockVars>>
vars == <<focus, clockVars, stopCh, obsVars, log, procVars, spanCfg, spanVars, trackVars, held,
          lockVars>>

\* a tick is served: ok when nothing in it broke the regular run
Served(ok) == ticks' = ticks + 1 /\ regular' = (regular /\ ok)

\* ------------------------------------------------------------------- time
Now == [wall |-> wall, mono |-> mono]
Add(t, d) == [wall |-> t.wall + d, mono |-> t.mono + d]
Sub(t, u) == t.mono - u.mono
UnixMilli(t) == t.wall * 1000

\* ------------------------------------------------------------------ rates
RECURSIVE GCD(_, _)
GCD(a, b) == IF b = 0 THEN a ELSE GCD(b, a % b)

\* A float64 rate is kept as the reduced fraction n/d, so that equal values
\* are equal records.
Frac(n, d) == LET g == GCD(n, d) IN [n |-> n \div g, d |-> d \div g]
Zero == [n |-> 0, d |-> 1]

\* a rate that forgets the elapsed time
RateOverOneSecond(cur, prev, dt) == Frac((cur - prev) % Uint64Mod, 1)

\* float64(cur - prev) / dt, the subtraction in uint64
Rate(cur, prev, dt) == Frac((cur - prev) % Uint64Mod, dt)

\* --------------------------------------------------------------- pruning
RECURSIVE DropOld(_, _)
DropOld(h, cutoff) ==
    IF h # <<>> /\ Head(h).Timestamp < cutoff THEN DropOld(Tail(h), cutoff) ELSE h

\* a pruning pass that drops at most one old point (an if where the source
\* has a loop)
PruneAtMostOne(h, now) ==
    IF Len(h) > HistoryPruneAt /\ Head(h).Timestamp < UnixMilli(Add(now, -HistoryMaxAge))
    THEN Tail(h)
    ELSE h

\* the pruning pass of poll and rateLoop, after the append
Prune(h, now) ==
    IF Len(h) > HistoryPruneAt
    THEN DropOld(h, UnixMilli(Add(now, -HistoryMaxAge)))
    ELSE h

\* ------------------------------------------------- kernel-counter collector
\* what one read of /proc/net/dev can return: for each interface present, its
\* cumulative counters; a tracked interface's counters move by one of Deltas
Deltas(n) == IF n = "eth0" THEN {<<1, 2>>, <<Uint64Mod - 1, 0>>} ELSE {<<2, 1>>}
Fresh == {<<5, 3>>}

Readings(n) ==
    IF n \in DOMAIN previous
    THEN {[rxBytes |-> (previous[n].rxBytes + d[1]) % Uint64Mod,
           txBytes |-> (previous[n].txBytes + d[2]) % Uint64Mod] : d \in Deltas(n)}
    ELSE {[rxBytes |-> d[1], txBytes |-> d[2]] : d \in Fresh}

Tables == UNION {[S -> UNION {Readings(n) : n \in S}] : S \in SUBSET Ifaces}
ProcNetDev == {t \in Tables : \A n \in DOMAIN t : t[n] \in Readings(n)}

\* the body of poll's loop for one interface
\* getIfaceAddrs: the addresses of an interface, none (a nil slice) for wg0
GetIfaceAddrs(name) == IF name = "eth0" THEN <<"192.168.1.2/24">> ELSE <<>>

\* The Addrs field of a new InterfaceStat: <<>> for a nil slice, else <<r>>
\* with r the reference of the backing array getIfaceAddrs has just made
\* (one per interface and poll, named by the poll's number).
NewAddrs(name) ==
    IF GetIfaceAddrs(name) = <<>> THEN <<>> ELSE <<[iface |-> name, gen |-> ticks + 1]>>

\* the backing arrays a value returned to a caller refers to
HeldRefs ==
    IF held.of # "GetAll" THEN {}
    ELSE {held.val[k].Addrs[1] : k \in {j \in DOMAIN held.val : held.val[j].Addrs # <<>>}}

PollStat(name, cur, prev, hasPrev, now) ==
    LET dt == IF hasPrev THEN Sub(now, prev.ts) ELSE 0
        computed == hasPrev /\ dt > 0
    IN [Name |-> name,
        Addrs |-> NewAddrs(name),
        RxBytes |-> cur.rxBytes,
        TxBytes |-> cur.txBytes,
        RxRate |-> IF computed THEN Rate(cur.rxBytes, prev.rxBytes, dt) ELSE Zero,
        TxRate |-> IF computed THEN Rate(cur.txBytes, prev.txBytes, dt) ELSE Zero,
        Timestamp |-> UnixMilli(now)]

\* a tick that prunes the history without appending the new point
PollHistoryWithoutAppend(h, iface, now) == Prune(h, now)

PollHistory(h, iface, now) ==
    Prune(Append(h, [Timestamp |-> UnixMilli(now),
                     RxRate |-> iface.RxRate,
                     TxRate |-> iface.TxRate]), now)

\* a poll whose removal loop deletes the history too
pollTableForgettingHistory(stats) ==
    LET now == Now
        gone == {n \in DOMAIN current : n \notin DOMAIN stats}
        prevKept == [n \in DOMAIN previous \ gone |-> previous[n]]
        hasPrev(n) == n \in DOMAIN prevKept
        iface(n) == PollStat(n, stats[n], IF hasPrev(n) THEN prevKept[n] ELSE Zero,
                             hasPrev(n), now)
        hist(n) == IF n \in DOMAIN history \ gone THEN history[n] ELSE <<>>
    IN /\ current' = [n \in (DOMAIN current \ gone) \cup DOMAIN stats |->
                        IF n \in DOMAIN stats THEN iface(n) ELSE current[n]]
       /\ previous' = [n \in DOMAIN prevKept \cup DOMAIN stats |->
                        IF n \in DOMAIN stats
                        THEN [rxBytes |-> stats[n].rxBytes,
                              txBytes |-> stats[n].txBytes,
                              ts |-> now]
                        ELSE prevKept[n]]
       /\ history' = [n \in (DOMAIN history \ gone) \cup {m \in DOMAIN stats : hasPrev(m)} |->
                        IF n \in DOMAIN stats /\ hasPrev(n)
                        THEN PollHistory(hist(n), iface(n), now)
                        ELSE history[n]]
       /\ heap' = [r \in HeldRefs \cup {iface(n).Addrs[1] :
                                          n \in {m \in DOMAIN stats : NewAddrs(m) # <<>>}} |->
                     IF r \in DOMAIN heap THEN heap[r] ELSE GetIfaceAddrs(r.iface)]

\* poll, past the read of the counter table
pollTable(stats) ==
    LET now == Now
        gone == {n \in DOMAIN current : n \notin DOMAIN stats}
        prevKept == [n \in DOMAIN previous \ gone |-> previous[n]]
        hasPrev(n) == n \in DOMAIN prevKept
        iface(n) == PollStat(n, stats[n], IF hasPrev(n) THEN prevKept[n] ELSE Zero,
                             hasPrev(n), now)
        hist(n) == IF n \in DOMAIN history THEN history[n] ELSE <<>>
    IN /\ current' = [n \in (DOMAIN current \ gone) \cup DOMAIN stats |->
                        IF n \in DOMAIN stats THEN iface(n) ELSE current[n]]
       /\ previous' = [n \in DOMAIN prevKept \cup DOMAIN stats |->
                        IF n \in DOMAIN stats
                        THEN [rxBytes |-> stats[n].rxBytes,
                              txBytes |-> stats[n].txBytes,
                              ts |-> now]
                        ELSE prevKept[n]]
       /\ history' = [n \in DOMAIN history \cup {m \in DOMAIN stats : hasPrev(m)} |->
                        IF n \in DOMAIN stats /\ hasPrev(n)
                        THEN PollHistory(hist(n), iface(n), now)
                        ELSE history[n]]
       /\ heap' = [r \in HeldRefs \cup {iface(n).Addrs[1] :
                                          n \in {m \in DOMAIN stats : NewAddrs(m) # <<>>}} |->
                     IF r \in DOMAIN heap THEN heap[r] ELSE GetIfaceAddrs(r.iface)]

\* a poll that goes on with whatever the failed read returned
pollIgnoringError(stats, err) ==
    /\ pollErr' = err
    /\ pollTable(IF err THEN <<>> ELSE stats)

\* poll: stats and err are readProcNetDev's results
poll(stats, err) ==
    /\ pollErr' = err
    /\ IF err
       THEN UNCHANGED <<current, previous, history, heap>>
       ELSE pollTable(stats)

\* Run: the first poll, before the loop
ProcRun ==
    /\ focus = "proc" /\ procPc = "new"
    /\ \E stats \in ProcNetDev, err \in BOOLEAN :
          poll(stats, err) /\ Served(~err)
    /\ procPc' = "loop"
    /\ UNCHANGED <<fixed, held, clockVars, stopCh, log, procTick, spanCfg, spanVars, trackVars>>

\* Run: case <-ticker.C
ProcTick ==
    /\ focus = "proc" /\ procPc = "loop" /\ procTick
    /\ \E stats \in ProcNetDev, err \in BOOLEAN :
          poll(stats, err) /\ Served(~err /\ DOMAIN stats = DOMAIN current)
    /\ procTick' = FALSE
    /\ UNCHANGED <<fixed, held, clockVars, stopCh, log, procPc, spanCfg, spanVars, trackVars>>

\* Run: case <-c.stopCh
ProcExit ==
    /\ focus = "proc" /\ procPc = "loop" /\ stopCh
    /\ procPc' = "done"
    /\ UNCHANGED <<fixed, held, clockVars, stopCh, obsVars, log, procTick, current, previous,
                   history, pollErr, heap,
                   spanCfg, spanVars, trackVars>>

\* --------------------------------------------------------------- frames
\* What a capture handle can deliver.  ip = 0 is a frame with no IP layer.
Frames ==
    { [ip |-> 4, l4 |-> "TCP",   src |-> "8.8.8.8",     dst |-> "10.0.0.5",  length |-> 3],
      [ip |-> 4, l4 |-> "UDP",   src |-> "10.0.0.5",    dst |-> "1.1.1.1",   length |-> 2],
      [ip |-> 4, l4 |-> "TCP",   src |-> "8.8.8.8",     dst |-> "1.1.1.1",   length |-> 2],
      [ip |-> 4, l4 |-> "Other", src |-> "10.0.0.5",    dst |-> "192.0.2.9", length |-> 1],
      [ip |-> 6, l4 |-> "ICMP",  src |-> "2001:db8::7", dst |-> "fd00::5",   length |-> 1],
      [ip |-> 0, l4 |-> "Other", src |-> "",            dst |-> "",          length |-> 0] }

\* pktLen of processPacket: ip.Length, plus the fixed header for IPv6
PktLen(f) == IF f.ip = 6 THEN f.length + IPv6HeaderLen ELSE f.length

\* net.IPNet.Contains, for the networks and addresses of the model
Contains(net, ip) ==
    \/ net = "10.0.0.0/8"     /\ ip = "10.0.0.5"
    \/ net = "192.0.2.0/24"   /\ ip = "192.0.2.9"
    \/ net = "fc00::/7"       /\ ip = "fd00::5"
    \/ net = "172.16.0.0/12"  /\ FALSE
    \/ net = "192.168.0.0/16" /\ FALSE
    \/ net = "127.0.0.0/8"    /\ FALSE
    \/ net = "::1/128"        /\ FALSE
    \/ net = "fe80::/10"      /\ FALSE

\* ------------------------------------------------------- capture collector
\* LOCAL_NETS as in the README's example, plus the host's private networks
ConfiguredNets == {"10.0.0.0/8", "192.0.2.0/24", "fc00::/7"}

isLocal(ip) == \E n \in localNets : Contains(n, ip)

NewStat == [Addrs |-> <<>>, RxBytes |-> 0, TxBytes |-> 0, RxPackets |-> 0, TxPackets |-> 0,
            RxRate |-> Zero, TxRate |-> Zero, Timestamp |-> 0]

\* a processPacket that takes the direction from the source address alone
SpanProcessPacketBySource(a, f) ==
    IF f.ip = 0 THEN a
    ELSE IF isLocal(f.src)
    THEN [a EXCEPT !.txBytes = (@ + PktLen(f)) % Uint64Mod,
                   !.txPackets = (@ + 1) % Uint64Mod]
    ELSE [a EXCEPT !.rxBytes = (@ + PktLen(f)) % Uint64Mod,
                   !.rxPackets = (@ + 1) % Uint64Mod]

\* processPacket of the capture collector: the accumulators after frame f
SpanProcessPacket(a, f) ==
    LET srcLocal == isLocal(f.src)
        dstLocal == isLocal(f.dst)
        pktLen == PktLen(f)
        tx == [a EXCEPT !.txBytes = (@ + pktLen) % Uint64Mod,
                        !.txPackets = (@ + 1) % Uint64Mod]
        rx == [a EXCEPT !.rxBytes = (@ + pktLen) % Uint64Mod,
                        !.rxPackets = (@ + 1) % Uint64Mod]
        both == [rx EXCEPT !.txBytes = (@ + pktLen) % Uint64Mod,
                           !.txPackets = (@ + 1) % Uint64Mod]
    IN  IF f.ip = 0 THEN a
        ELSE IF srcLocal /\ ~dstLocal THEN tx
        ELSE IF ~srcLocal /\ dstLocal THEN rx
        ELSE IF srcLocal /\ dstLocal THEN both
        ELSE a

\* a Run that goes on without local networks
SpanRunAnyway ==
    /\ focus = "span" /\ spanPc = "new"
    /\ \E opened \in BOOLEAN :
          IF device = "" \/ ~opened
          THEN spanPc' = "done" /\ ratePc' = ratePc
          ELSE spanPc' = "capture" /\ ratePc' = "spawned"
    /\ UNCHANGED <<fixed, held, clockVars, stopCh, obsVars, log, procVars, spanCfg,
                   rateTick, acc, stat, spanHistory, prevSample, trackVars>>

\* Run, up to the capture loop; opened is pcap.OpenLive's outcome
SpanRun ==
    /\ focus = "span" /\ spanPc = "new"
    /\ \E opened \in BOOLEAN :
          IF device = "" \/ localNets = {} \/ ~opened
          THEN spanPc' = "done" /\ ratePc' = ratePc
          ELSE spanPc' = "capture" /\ ratePc' = "spawned"
    /\ UNCHANGED <<fixed, held, clockVars, stopCh, obsVars, log, procVars, spanCfg,
                   rateTick, acc, stat, spanHistory, prevSample, trackVars>>

\* Run: one frame read and processed
SpanCapture ==
    /\ focus = "span" /\ spanPc = "capture" /\ BagCardinality(log) < MaxFrames
    /\ \E f \in Frames :
          /\ acc' = SpanProcessPacket(acc, f)
          /\ log' = log (+) SetToBag({[f |-> f, gen |-> 0]})
    /\ UNCHANGED <<fixed, held, clockVars, stopCh, obsVars, procVars, spanCfg,
                   spanPc, ratePc, rateTick, stat, spanHistory, prevSample, trackVars>>

\* Run: ReadPacketData fails with something other than a timeout
SpanReadError ==
    /\ focus = "span" /\ spanPc = "capture"
    /\ spanPc' = "done"
    /\ UNCHANGED <<fixed, held, clockVars, stopCh, obsVars, log, procVars, spanCfg,
                   ratePc, rateTick, acc, stat, spanHistory, prevSample, trackVars>>

\* Run: case <-c.stopCh
SpanExit ==
    /\ focus = "span" /\ spanPc = "capture" /\ stopCh
    /\ spanPc' = "done"
    /\ UNCHANGED <<fixed, held, clockVars, stopCh, obsVars, log, procVars, spanCfg,
                   ratePc, rateTick, acc, stat, spanHistory, prevSample, trackVars>>

\* rateLoop, up to its loop
RateStart ==
    /\ focus = "span" /\ ratePc = "spawned"
    /\ ratePc' = "loop"
    /\ prevSample' = [rx |-> 0, tx |-> 0, time |-> Now]
    /\ UNCHANGED <<fixed, held, clockVars, stopCh, obsVars, log, procVars, spanCfg,
                   spanPc, rateTick, acc, stat, spanHistory, trackVars>>

\* the published snapshot of one rateLoop tick
RateStat(a, p, now) ==
    LET dt == Sub(now, p.time)
    IN [Addrs |-> <<>>,
        RxBytes |-> a.rxBytes, TxBytes |-> a.txBytes,
        RxPackets |-> a.rxPackets, TxPackets |-> a.txPackets,
        RxRate |-> Rate(a.rxBytes, p.rx, dt),
        TxRate |-> Rate(a.txBytes, p.tx, dt),
        Timestamp |-> UnixMilli(now)]

\* rateLoop: case <-ticker.C
RateTick ==
    /\ focus = "span" /\ ratePc = "loop" /\ rateTick
    /\ rateTick' = FALSE
    /\ Served(TRUE)
    /\ LET now == Now
       IN IF Sub(now, prevSample.time) <= 0
          THEN UNCHANGED <<stat, spanHistory, prevSample>>
          ELSE /\ stat' = RateStat(acc, prevSample, now)
               /\ spanHistory' = PollHistory(spanHistory, stat', now)
               /\ prevSample' = [rx |-> acc.rxBytes, tx |-> acc.txBytes, time |-> now]
    /\ UNCHANGED <<fixed, held, clockVars, stopCh, log, procVars, spanCfg,
                   spanPc, ratePc, acc, trackVars>>

\* a rate loop whose select has no stop case
RateLoopWithoutStop == FALSE

\* rateLoop: case <-c.stopCh
RateExit ==
    /\ focus = "span" /\ ratePc = "loop" /\ stopCh
    /\ ratePc' = "done"
    /\ UNCHANGED <<fixed, held, clockVars, stopCh, obsVars, log, procVars, spanCfg,
                   spanPc, rateTick, acc, stat, spanHistory, prevSample, trackVars>>

\* ----------------------------------------------------- top-talkers tracker
\* The tracker's clock counts half minutes: a bucket lasts two of them.
PrivateRanges == {"10.0.0.0/8", "172.16.0.0/12", "192.168.0.0/16", "127.0.0.0/8",
                  "fc00::/7", "::1/128", "fe80::/10"}

isPrivateIP(ip) == \E r \in PrivateRanges : Contains(r, ip)

\* time.Time.Truncate(bucketSize); the result has no monotonic reading
Truncate(t) == t.wall - (t.wall % BucketSize)

NewBucket(now) ==
    [timestamp |-> Truncate(now), hosts |-> <<>>, protoBytes |-> <<>>, ipVerBytes |-> <<>>]

\* m[k] += v of a Go map
AddTo(m, k, v) ==
    [x \in DOMAIN m \cup {k} |->
        IF x = k THEN ((IF k \in DOMAIN m THEN m[k] ELSE 0) + v) % Uint64Mod ELSE m[x]]

\* processPacket's loop body for one endpoint
Credit(hosts, ip, pktLen) ==
    IF isPrivateIP(ip) THEN hosts
    ELSE LET old == IF ip \in DOMAIN hosts THEN hosts[ip] ELSE [bytes |-> 0, packets |-> 0]
         IN [x \in DOMAIN hosts \cup {ip} |->
                IF x = ip
                THEN [bytes |-> (old.bytes + pktLen) % Uint64Mod,
                      packets |-> (old.packets + 1) % Uint64Mod]
                ELSE hosts[x]]

IPVersion(f) == IF f.ip = 4 THEN "IPv4" ELSE "IPv6"

\* a processPacket that credits the source address only
CreditSourceOnly(cur, f) ==
    IF f.ip = 0 \/ cur = <<>> THEN cur
    ELSE <<[cur[1] EXCEPT
              !.hosts = Credit(@, f.src, PktLen(f)),
              !.protoBytes = AddTo(@, f.l4, PktLen(f)),
              !.ipVerBytes = AddTo(@, IPVersion(f), PktLen(f))]>>

\* a processPacket that counts no bytes for a protocol it has no name for
TrackProcessPacketNamedOnly(cur, f) ==
    IF f.ip = 0 \/ cur = <<>> THEN cur
    ELSE LET pktLen == PktLen(f)
         IN <<[cur[1] EXCEPT
                 !.hosts = Credit(Credit(@, f.src, pktLen), f.dst, pktLen),
                 !.protoBytes = IF f.l4 = "Other" THEN @ ELSE AddTo(@, f.l4, pktLen),
                 !.ipVerBytes = AddTo(@, IPVersion(f), pktLen)]>>

\* processPacket of the tracker: Tracker.current after frame f
TrackProcessPacket(cur, f) ==
    IF f.ip = 0 \/ cur = <<>> THEN cur
    ELSE LET pktLen == PktLen(f)
         IN <<[cur[1] EXCEPT
                 !.hosts = Credit(Credit(@, f.src, pktLen), f.dst, pktLen),
                 !.protoBytes = AddTo(@, f.l4, pktLen),
                 !.ipVerBytes = AddTo(@, IPVersion(f), pktLen)]>>

\* a pruning pass that also drops the bucket exactly maxAge old
RECURSIVE DropThrough(_, _)
DropThrough(bs, cutoff) ==
    IF bs # <<>> /\ Head(bs).timestamp <= cutoff THEN DropThrough(Tail(bs), cutoff) ELSE bs

\* a pruning that removes at most one sealed bucket per rotation (an if where
\* the source has a loop)
DropAtMostOne(bs, cutoff) ==
    IF bs # <<>> /\ Head(bs).timestamp < cutoff THEN Tail(bs) ELSE bs

RECURSIVE DropBefore(_, _)
DropBefore(bs, cutoff) ==
    IF bs # <<>> /\ Head(bs).timestamp < cutoff THEN DropBefore(Tail(bs), cutoff) ELSE bs

\* a rotation that keeps the per-IP accumulators of the newest sealed bucket
\* only and empties those of the older ones
RotateKeepingNewest(bs, cur, now) ==
    LET all  == IF cur # <<>> THEN Append(bs, cur[1]) ELSE bs
        kept == DropBefore(all, Add(now, -TalkerMaxAge).wall)
    IN [k \in 1..Len(kept) |->
           IF k < Len(kept) THEN [kept[k] EXCEPT !.hosts = <<>>] ELSE kept[k]]

\* rotateBuckets: the sealed buckets after the tick at now
Rotate(bs, cur, now) ==
    DropBefore(IF cur # <<>> THEN Append(bs, cur[1]) ELSE bs,
               Add(now, -TalkerMaxAge).wall)

\* what getDevices can return: the configured device dev, or pcap.FindAllDevs
GetDevices(dev) ==
    IF dev # ""
    THEN {[err |-> FALSE, names |-> <<dev>>]}
    ELSE {[err |-> TRUE, names |-> <<>>],
          [err |-> FALSE, names |-> <<>>],
          [err |-> FALSE, names |-> <<"eth1">>]}

\* a Run that starts its goroutines without opening the first bucket
TrackRunWithoutBucket ==
    /\ focus = "talkers" /\ trackPc = "new"
    /\ \E opened \in BOOLEAN :
          /\ trackPc' = "run"
          /\ rotPc' = "loop" /\ rotStart' = mono
          /\ capPc' = IF opened THEN "capture" ELSE "done"
    /\ UNCHANGED <<fixed, held, clockVars, stopCh, obsVars, log, procVars, spanCfg, spanVars,
                   rotTick, buckets, tcurrent>>

\* Run, up to <-t.stopCh.  The goroutines it spawns start within the same
\* half minute; dev is Tracker.device, which only Run reads, and opened is
\* pcap.OpenLive's outcome in captureDevice.
TrackRun ==
    /\ focus = "talkers" /\ trackPc = "new"
    /\ \E dev \in {"", "eth1"}, opened \in BOOLEAN : \E devs \in GetDevices(dev) :
          IF devs.err \/ Len(devs.names) = 0
          THEN /\ trackPc' = "done"
               /\ UNCHANGED <<capPc, rotPc, rotStart, tcurrent>>
          ELSE /\ trackPc' = "run"
               /\ tcurrent' = <<NewBucket(Now)>>
               /\ rotPc' = "loop" /\ rotStart' = mono
               /\ capPc' = IF opened THEN "capture" ELSE "done"
    /\ UNCHANGED <<fixed, held, clockVars, stopCh, obsVars, log, procVars, spanCfg, spanVars,
                   rotTick, buckets>>

\* Run: <-t.stopCh
TrackExit ==
    /\ focus = "talkers" /\ trackPc = "run" /\ stopCh
    /\ trackPc' = "done"
    /\ UNCHANGED <<fixed, held, clockVars, stopCh, obsVars, log, procVars, spanCfg, spanVars,
                   capPc, rotPc, rotTick, rotStart, buckets, tcurrent>>

\* captureDevice: one frame read and processed
TrackCapture ==
    /\ focus = "talkers" /\ capPc = "capture" /\ BagCardinality(log) < MaxFrames
    /\ \E f \in Frames :
          /\ tcurrent' = TrackProcessPacket(tcurrent, f)
          /\ log' = log (+) SetToBag({[f |-> f, gen |-> ticks]})
    /\ UNCHANGED <<fixed, held, clockVars, stopCh, obsVars, procVars, spanCfg, spanVars,
                   trackPc, capPc, rotPc, rotTick, rotStart, buckets>>

\* captureDevice: ReadPacketData fails with something other than a timeout
TrackReadError ==
    /\ focus = "talkers" /\ capPc = "capture"
    /\ capPc' = "done"
    /\ UNCHANGED <<fixed, held, clockVars, stopCh, obsVars, log, procVars, spanCfg, spanVars,
                   trackPc, rotPc, rotTick, rotStart, buckets, tcurrent>>

\* captureDevice: case <-t.stopCh
TrackCapExit ==
    /\ focus = "talkers" /\ capPc = "capture" /\ stopCh
    /\ capPc' = "done"
    /\ UNCHANGED <<fixed, held, clockVars, stopCh, obsVars, log, procVars, spanCfg, spanVars,
                   trackPc, rotPc, rotTick, rotStart, buckets, tcurrent>>

\* a rotation whose new bucket starts with the hosts of the one it seals
RotTickCarryingHosts ==
    /\ focus = "talkers" /\ rotPc = "loop" /\ rotTick
    /\ rotTick' = FALSE
    /\ buckets' = Rotate(buckets, tcurrent, Now)
    /\ tcurrent' = <<[NewBucket(Now) EXCEPT
                          !.hosts = IF tcurrent = <<>> THEN <<>> ELSE tcurrent[1].hosts]>>
    /\ Served(TRUE)
    /\ UNCHANGED <<fixed, held, clockVars, stopCh, log, procVars, spanCfg, spanVars,
                   trackPc, capPc, rotPc, rotStart>>

\* rotateBuckets: case <-ticker.C
RotTick ==
    /\ focus = "talkers" /\ rotPc = "loop" /\ rotTick
    /\ rotTick' = FALSE
    /\ buckets' = Rotate(buckets, tcurrent, Now)
    /\ tcurrent' = <<NewBucket(Now)>>
    /\ Served(TRUE)
    /\ UNCHANGED <<fixed, held, clockVars, stopCh, log, procVars, spanCfg, spanVars,
                   trackPc, capPc, rotPc, rotStart>>

\* rotateBuckets: case <-t.stopCh
RotExit ==
    /\ focus = "talkers" /\ rotPc = "loop" /\ stopCh
    /\ rotPc' = "done"
    /\ UNCHANGED <<fixed, held, clockVars, stopCh, obsVars, log, procVars, spanCfg, spanVars,
                   trackPc, capPc, rotTick, rotStart, buckets, tcurrent>>

\* ---------------------------------------------------------------- queries
Min(a, b) == IF a < b THEN a ELSE b

\* an ascending order
VolumeAscending(a, b) == a.TotalBytes < b.TotalBytes

\* the less function of TopByVolume's sort
VolumeLess(a, b) == a.TotalBytes > b.TotalBytes

\* the less function of TopByBandwidth's sort: a float64 comparison of two rates
RateLess(a, b) == a.RateBytes.n * b.RateBytes.d > b.RateBytes.n * a.RateBytes.d

\* the closure handed to sort.Slice by TopByBandwidth (byRate) or TopByVolume
Less(a, b, byRate) == IF byRate THEN RateLess(a, b) ELSE VolumeLess(a, b)

\* sort.Slice: the orders of S in which no element comes after one it is
\* less than.  The sort is not stable and the list comes from a map's
\* iteration, so every such order is a possible result: first an element
\* that none precedes, then the others in the same way.
RECURSIVE SortSlice(_, _)
SortSlice(S, byRate) ==
    IF S = {} THEN {<<>>}
    ELSE UNION {{<<x>> \o l : l \in SortSlice(S \ {x}, byRate)} :
                   x \in {y \in S : \A z \in S : ~Less(z, y, byRate)}}

\* a list that is never cut
NotTruncated(l, n) == l

\* list[:n] when len(list) > n
Truncated(l, n) == IF Len(l) > n THEN SubSeq(l, 1, n) ELSE l

\* totals[ip].TotalBytes += acc.bytes, totals[ip].Packets += acc.packets
AddHosts(totals, hosts) ==
    [ip \in DOMAIN totals \cup DOMAIN hosts |->
        LET t == IF ip \in DOMAIN totals THEN totals[ip]
                 ELSE [IP |-> ip, TotalBytes |-> 0, RateBytes |-> Zero, Packets |-> 0]
            h == IF ip \in DOMAIN hosts THEN hosts[ip] ELSE [bytes |-> 0, packets |-> 0]
        IN [t EXCEPT !.TotalBytes = (@ + h.bytes) % Uint64Mod,
                     !.Packets = (@ + h.packets) % Uint64Mod]]

RECURSIVE SumBuckets(_, _)
SumBuckets(totals, bs) ==
    IF bs = <<>> THEN totals ELSE SumBuckets(AddHosts(totals, Head(bs).hosts), Tail(bs))

\* a TopByVolume that leaves the open bucket out
TopOfSealedOnly(n) ==
    LET totals == SumBuckets(<<>>, buckets)
    IN {Truncated(l, n) : l \in SortSlice({totals[ip] : ip \in DOMAIN totals}, FALSE)}

\* the lists TopByVolume(n) can return
TopByVolume(n) ==
    LET totals == SumBuckets(<<>>, buckets \o tcurrent)
    IN {Truncated(l, n) : l \in SortSlice({totals[ip] : ip \in DOMAIN totals}, FALSE)}

\* time.Since(t.current.timestamp).Seconds(), at least 1
Elapsed ==
    LET e == (Now.wall - tcurrent[1].timestamp) * 30 IN IF e < 1 THEN 1 ELSE e

\* the lists TopByBandwidth(n) can return; nil is the empty list
TopByBandwidth(n) ==
    IF tcurrent = <<>> THEN {<<>>}
    ELSE LET hosts == tcurrent[1].hosts
             s(ip) == [IP |-> ip,
                       TotalBytes |-> hosts[ip].bytes,
                       RateBytes |-> Frac(hosts[ip].bytes, Elapsed),
                       Packets |-> hosts[ip].packets]
         IN {Truncated(l, n) : l \in SortSlice({s(ip) : ip \in DOMAIN hosts}, TRUE)}

\* totals[k] += v for every k, v of the Go map m
AddMap(totals, m) ==
    [k \in DOMAIN totals \cup DOMAIN m |->
        ((IF k \in DOMAIN totals THEN totals[k] ELSE 0)
            + (IF k \in DOMAIN m THEN m[k] ELSE 0)) % Uint64Mod]

\* the loops of GetProtocolBreakdown and GetIPVersionBreakdown over the
\* buckets bs, on the field they add up
RECURSIVE Breakdown(_, _, _)
Breakdown(totals, bs, field) ==
    IF bs = <<>> THEN totals ELSE Breakdown(AddMap(totals, Head(bs)[field]), Tail(bs), field)

GetProtocolBreakdown == Breakdown(<<>>, buckets \o tcurrent, "protoBytes")
GetIPVersionBreakdown == Breakdown(<<>>, buckets \o tcurrent, "ipVerBytes")

\* GetAll, GetHistory of the two collectors
ProcGetAll == {current[n] : n \in DOMAIN current}
ProcGetHistory == history
SpanGetAll == <<stat>>
SpanGetHistory == [d \in {device} |-> spanHistory]

\* ------------------------------------------------- a caller of the read API
\* GetAll as the caller gets it: one InterfaceStat copied by value for each
\* interface (*s), its Addrs field still the reference the collector holds;
\* the elements are named by interface here, by position in the source
GetAllResult ==
    IF focus = "proc" THEN [n \in DOMAIN current |-> current[n]]
    ELSE [n \in {device} |-> stat]

\* GetHistory as the caller gets it: every slice copied element by element
GetHistoryResult == IF focus = "proc" THEN ProcGetHistory ELSE SpanGetHistory

\* a handler, or any other caller, calls GetAll
CallGetAll ==
    /\ focus \in {"proc", "span"} /\ held.of = "none"
    /\ held' = [of |-> "GetAll", val |-> GetAllResult, changed |-> FALSE]
    /\ UNCHANGED <<fixed, clockVars, stopCh, obsVars, log, procVars, spanCfg, spanVars,
                   trackVars>>

\* a caller calls GetHistory
CallGetHistory ==
    /\ focus \in {"proc", "span"} /\ held.of = "none"
    /\ held' = [of |-> "GetHistory", val |-> GetHistoryResult, changed |-> FALSE]
    /\ UNCHANGED <<fixed, clockVars, stopCh, obsVars, log, procVars, spanCfg, spanVars,
                   trackVars>>

\* The caller writes to the value it was given, once: to a field of an
\* element, to an element of an Addrs slice (a write through the slice's
\* reference, into its backing array), or to a point of a history.
CallerWrite ==
    /\ held.of # "none" /\ ~held.changed
    /\ \E k \in DOMAIN held.val :
          \/ /\ held.of = "GetAll"
             /\ held' = [held EXCEPT !.changed = TRUE,
                                     !.val[k].RxBytes = (@ + 1) % Uint64Mod]
             /\ UNCHANGED heap
          \/ /\ held.of = "GetAll" /\ held.val[k].Addrs # <<>>
             /\ held' = [held EXCEPT !.changed = TRUE]
             /\ heap' = [heap EXCEPT ![held.val[k].Addrs[1]][1] = "0.0.0.0/0"]
          \/ /\ held.of = "GetHistory" /\ held.val[k] # <<>>
             /\ held' = [held EXCEPT !.changed = TRUE, !.val[k][1].Timestamp = 0]
             /\ UNCHANGED heap
    /\ UNCHANGED <<fixed, clockVars, stopCh, obsVars, log, procPc, procTick, current, previous,
                   history, pollErr, spanCfg, spanVars, trackVars>>

\* a resampling that always spreads the points over maxPoints slots, even
\* when there are fewer points than slots
DownsampleAlways(pts, maxPoints) ==
    [i \in 1..maxPoints |->
        LET idx == Min(((i - 1) * Len(pts)) \div maxPoints, Len(pts) - 1)
        IN [RX |-> pts[idx + 1].RxRate, TX |-> pts[idx + 1].TxRate]]

\* a resampling that keeps the first maxPoints points
DownsampleHead(pts, maxPoints) ==
    [i \in 1..Min(Len(pts), maxPoints) |-> [RX |-> pts[i].RxRate, TX |-> pts[i].TxRate]]

RECURSIVE Pow2(_)
Pow2(k) == IF k = 0 THEN 1 ELSE 2 * Pow2(k - 1)

\* floor(log2(n / d)), for n >= d > 0
RECURSIVE Log2(_, _)
Log2(n, d) == IF n < 2 * d THEN 0 ELSE 1 + Log2(n, 2 * d)

\* The float64 nearest to n / d, for n >= d > 0, as a fraction: the quotient
\* is scaled to a significand of Precision bits and rounded to the nearest
\* integer, a tie to the even one.
Float64(n, d) ==
    LET e    == Log2(n, d)
        up   == IF e < Precision - 1 THEN Pow2(Precision - 1 - e) ELSE 1
        down == IF e > Precision - 1 THEN Pow2(e - (Precision - 1)) ELSE 1
        num  == n * up
        den  == d * down
        q    == num \div den
        r    == num % den
        m    == IF 2 * r > den \/ (2 * r = den /\ q % 2 = 1) THEN q + 1 ELSE q
    IN [n |-> m * down, d |-> up]

\* idx for the i-th point (from 0) of a line of max points drawn from len:
\* step := float64(len) / float64(max); idx := int(float64(i) * step),
\* lowered to len - 1 if it is beyond; both operations round
SparkIndex(i, len, max) ==
    IF i = 0 THEN 0
    ELSE LET step == Float64(len, max)
             at   == Float64(i * step.n, step.d)
         IN Min(at.n \div at.d, len - 1)

\* GetSparklines' line for the points pts: all of them, or maxPoints of them
\* picked at the indices int(float64(i) * step)
Downsample(pts, maxPoints) ==
    IF Len(pts) <= maxPoints
    THEN [i \in 1..Len(pts) |-> [RX |-> pts[i].RxRate, TX |-> pts[i].TxRate]]
    ELSE [i \in 1..maxPoints |->
             LET idx == SparkIndex(i - 1, Len(pts), maxPoints)
             IN [RX |-> pts[idx + 1].RxRate, TX |-> pts[idx + 1].TxRate]]

\* GetSparklines of the kernel collector: only interfaces with points
ProcGetSparklines(duration, maxPoints) ==
    LET pts(n) == DropOld(history[n], UnixMilli(Add(Now, -duration)))
    IN [n \in {m \in DOMAIN history : pts(m) # <<>>} |-> Downsample(pts(n), maxPoints)]

\* GetSparklines of the capture collector; nil is the empty map
SpanGetSparklines(duration, maxPoints) ==
    LET pts == DropOld(spanHistory, UnixMilli(Add(Now, -duration)))
    IN IF pts = <<>> THEN <<>> ELSE [d \in {device} |-> Downsample(pts, maxPoints)]

\* ------------------------------------------------------------ environment
\* main starts every Run with the process
Started ==
    \/ focus = "proc" /\ procPc # "new"
    \/ focus = "span" /\ spanPc # "new"
    \/ focus = "talkers" /\ trackPc # "new"

\* the clock stops once a history, or the bucket window, had the time to
\* overflow and be pruned
Horizon ==
    IF focus = "talkers" THEN TalkerMaxAge + BucketSize
    ELSE HistoryMaxAge + 2 * PollInterval

Period == IF focus = "talkers" THEN BucketSize ELSE PollInterval

\* One unit of time passes; every running ticker whose period ends sends a
\* tick, which is dropped if one is waiting.  main exits the process right
\* after Stop, so no modelled time passes after it.
Advance ==
    /\ mono < Horizon /\ ~stopCh /\ Started
    /\ mono' = mono + 1
    /\ wall' = wall + 1
    /\ procTick' = (procTick \/ procPc = "loop")
    /\ rateTick' = (rateTick \/ ratePc = "loop")
    /\ rotTick' = (rotTick \/ (rotPc = "loop" /\ (mono' - rotStart) % BucketSize = 0))
    /\ regular' = (regular /\ ~(procTick \/ rateTick \/ rotTick))
    /\ UNCHANGED <<fixed, held, clockStepped, duplicated, stopCh, ticks, log, procPc, current,
                   previous, history, pollErr, heap,
                   spanCfg, spanPc, ratePc, acc, stat, spanHistory, prevSample,
                   trackPc, capPc, rotPc, rotStart, buckets, tcurrent>>

\* the wall clock is set back by one period of the component's ticker
\* (settimeofday, an NTP step); a behaviour has one fault of the clock at
\* most, this one or DuplicateTick
ClockStep ==
    /\ ~clockStepped /\ ~duplicated /\ ~stopCh /\ Started
    /\ clockStepped' = TRUE
    /\ wall' = wall - Period
    /\ regular' = FALSE
    /\ UNCHANGED <<fixed, held, mono, duplicated, stopCh, ticks, log, procVars, spanCfg, spanVars,
                   trackVars>>

\* A tick that waited in the channel of a collector's ticker is received late
\* and the next one right after it, both within one reading of the clock
\* (time.Now has a finite resolution): the loop gets a second tick at the
\* reading at which it has just taken a sample.  A behaviour has one fault of
\* the clock at most, this one or ClockStep.
DuplicateTick ==
    /\ ~duplicated /\ ~clockStepped /\ ~stopCh /\ mono >= 1
    /\ duplicated' = TRUE
    /\ regular' = FALSE
    /\ \/ /\ focus = "proc" /\ procPc = "loop" /\ ~procTick
          /\ procTick' = TRUE
          /\ UNCHANGED rateTick
       \/ /\ focus = "span" /\ ratePc = "loop" /\ ~rateTick
          /\ ticks >= 1 /\ prevSample.time.mono = mono
          /\ rateTick' = TRUE
          /\ UNCHANGED procTick
    /\ UNCHANGED <<fixed, held, wall, mono, clockStepped, stopCh, ticks, log, procPc, current,
                   previous, history, pollErr, heap, spanCfg, spanPc, ratePc, acc, stat,
                   spanHistory,
                   prevSample, trackVars>>

Stop ==
    /\ ~stopCh
    /\ stopCh' = TRUE
    /\ UNCHANGED <<fixed, held, obsVars, clockVars, log, procVars, spanCfg, spanVars, trackVars>>

\* ------------------------------------------- the tracker, lock by lock
\* The goroutines of the tracker with every acquisition of Tracker.mu a step
\* of its own (focus "locks": Run, one captureDevice, rotateBuckets and the
\* callers of the queries), and the calls of resolveIP with every
\* acquisition of Tracker.dnsCacheMu a step of its own (focus "dns").
Callers == {"q1", "q2"}
Goroutines == {"run", "capture", "rotate"} \cup Callers

\* a name as resolveIP keeps it; rooted when it ends in a dot
Name(host, rooted) == [host |-> host, rooted |-> rooted]
NoName == Name("", FALSE)

\* what net.LookupAddr can return for ip: an error or no name (<<>>), or the
\* rooted names of the address
LookupAddr(ip) ==
    {<<>>} \cup (IF ip = "8.8.8.8" THEN {<<Name("dns.google", TRUE)>>}
                 ELSE IF ip = "1.1.1.1" THEN {<<Name("one.one.one.one", TRUE)>>}
                 ELSE {})

\* name = name[:len(name)-1] when the name ends in a dot
TrimDot(name) == IF name.rooted THEN [name EXCEPT !.rooted = FALSE] ELSE name

\* sync.RWMutex
Unlocked == [writer |-> "none", readers |-> {}]
CanLock(m) == m.writer = "none" /\ m.readers = {}
CanRLock(m) == m.writer = "none"

At(g, pc) == focus = "locks" /\ tpc[g] = pc
In(q, pc) == focus = "dns" /\ tpc[q] = pc
Goto(g, pc) == tpc' = [tpc EXCEPT ![g] = pc]

\* the variables of the collectors that the tracker's goroutines leave alone
lockRest == <<focus, held, clockVars, stopCh, obsVars, procVars, spanCfg, spanVars,
              trackPc, capPc, rotPc, rotTick, rotStart, sideVars>>
dnsVars == <<calls, dnsCacheMu, dnsCache, lookups, placed>>

\* Run, to the list of devices
RunDevices ==
    /\ At("run", "new")
    /\ \E dev \in {"", "eth1"} : \E devs \in GetDevices(dev) :
          Goto("run", IF devs.err \/ Len(devs.names) = 0 THEN "done" ELSE "set")
    /\ UNCHANGED <<lockRest, log, buckets, tcurrent, mu, pkt, dnsVars>>

\* Run: t.current = &bucket{...}, with no lock taken
RunSetCurrent ==
    /\ At("run", "set")
    /\ tcurrent' = <<NewBucket(Now)>>
    /\ Goto("run", "go")
    /\ UNCHANGED <<lockRest, log, buckets, mu, pkt, dnsVars>>

\* Run: go t.rotateBuckets(); go t.captureDevice(dev); <-t.stopCh
RunGo ==
    /\ At("run", "go")
    /\ tpc' = [tpc EXCEPT !["run"] = "wait", !["rotate"] = "idle", !["capture"] = "idle"]
    /\ UNCHANGED <<lockRest, log, buckets, tcurrent, mu, pkt, dnsVars>>

\* processPacket, to t.mu.Lock(): the packet is parsed
CapArrive ==
    /\ At("capture", "idle") /\ BagCardinality(log) < MaxFrames
    /\ \E f \in {g \in Frames : g.ip # 0} : pkt' = f
    /\ Goto("capture", "want")
    /\ UNCHANGED <<lockRest, log, buckets, tcurrent, mu, dnsVars>>

\* processPacket: t.mu.Lock()
CapLock ==
    /\ At("capture", "want") /\ CanLock(mu)
    /\ mu' = [mu EXCEPT !.writer = "capture"]
    /\ Goto("capture", "locked")
    /\ UNCHANGED <<lockRest, log, buckets, tcurrent, pkt, dnsVars>>

\* processPacket, from the lock to the deferred t.mu.Unlock()
CapWrite ==
    /\ At("capture", "locked")
    /\ tcurrent' = TrackProcessPacket(tcurrent, pkt)
    /\ log' = log (+) SetToBag({[f |-> pkt, gen |-> ticks]})
    /\ mu' = [mu EXCEPT !.writer = "none"]
    /\ pkt' = <<>>
    /\ Goto("capture", "idle")
    /\ UNCHANGED <<lockRest, buckets, dnsVars>>

\* rotateBuckets: a tick, t.mu.Lock()
RotLock ==
    /\ At("rotate", "idle") /\ Len(buckets) < MaxBuckets /\ CanLock(mu)
    /\ mu' = [mu EXCEPT !.writer = "rotate"]
    /\ Goto("rotate", "locked")
    /\ UNCHANGED <<lockRest, log, buckets, tcurrent, pkt, dnsVars>>

\* rotateBuckets, from the lock to t.mu.Unlock()
RotWrite ==
    /\ At("rotate", "locked")
    /\ buckets' = Rotate(buckets, tcurrent, Now)
    /\ tcurrent' = <<NewBucket(Now)>>
    /\ mu' = [mu EXCEPT !.writer = "none"]
    /\ Goto("rotate", "idle")
    /\ UNCHANGED <<lockRest, log, pkt, dnsVars>>

\* the addresses with an accumulator in the buckets bs
HostsOf(bs) == UNION {DOMAIN bs[k].hosts : k \in 1..Len(bs)}

\* TopByVolume or TopByBandwidth: t.mu.RLock() and the addresses to report
QueryEnter(q) ==
    /\ At(q, "idle") /\ CanRLock(mu)
    /\ mu' = [mu EXCEPT !.readers = @ \cup {q}]
    /\ \E all \in BOOLEAN :
          calls' = [calls EXCEPT
                       ![q].todo = HostsOf(IF all THEN buckets \o tcurrent ELSE tcurrent)]
    /\ Goto(q, "listing")
    /\ UNCHANGED <<lockRest, log, buckets, tcurrent, pkt, dnsCacheMu, dnsCache, lookups,
                   placed>>

\* the query's loop, with the lock held: the next address, in the order of
\* a map's range, is resolved, enriched and listed
QueryNext(q) ==
    /\ At(q, "listing")
    /\ \E ip \in calls[q].todo : calls' = [calls EXCEPT ![q].todo = @ \ {ip}]
    /\ UNCHANGED <<lockRest, log, buckets, tcurrent, tpc, mu, pkt, dnsCacheMu, dnsCache,
                   lookups, placed>>

\* the addresses resolveIP is called with
Resolved == {"8.8.8.8", "1.1.1.1", "192.0.2.9"}

\* a query calls resolveIP(ip)
ResolveCall(q) ==
    /\ In(q, "idle")
    /\ \E ip \in Resolved : calls' = [calls EXCEPT ![q].ip = ip, ![q].name = NoName]
    /\ Goto(q, "resolve")
    /\ UNCHANGED <<lockRest, log, buckets, tcurrent, mu, pkt, dnsCacheMu, dnsCache, lookups,
                   placed>>

\* resolveIP: the read of the cache under dnsCacheMu.RLock()
ResolveRead(q) ==
    /\ In(q, "resolve") /\ dnsCacheMu = "none"
    /\ IF calls[q].ip \in DOMAIN dnsCache
       THEN /\ calls' = [calls EXCEPT ![q].name = dnsCache[calls[q].ip]]
            /\ Goto(q, "idle")
       ELSE /\ calls' = calls
            /\ Goto(q, "miss")
    /\ UNCHANGED <<lockRest, log, buckets, tcurrent, mu, pkt, dnsCacheMu, dnsCache, lookups,
                   placed>>

\* resolveIP: t.dnsCacheMu.Lock()
ResolveLock(q) ==
    /\ In(q, "miss") /\ dnsCacheMu = "none"
    /\ dnsCacheMu' = q
    /\ Goto(q, "check")
    /\ UNCHANGED <<lockRest, log, buckets, tcurrent, mu, pkt, calls, dnsCache, lookups,
                   placed>>

\* a resolveIP that does not look again once it has the lock
FoundNever(cache, ip) == FALSE

\* resolveIP's second look, under the write lock
FoundAgain(cache, ip) == ip \in DOMAIN cache

\* resolveIP, from the write lock to its return: the name found by the
\* second look, or the placeholder stored and the lookup dispatched
ResolveStore(q) ==
    LET ip == calls[q].ip
    IN /\ In(q, "check")
       /\ IF FoundAgain(dnsCache, ip)
          THEN /\ calls' = [calls EXCEPT ![q].name = dnsCache[ip]]
               /\ UNCHANGED <<dnsCache, lookups, placed>>
          ELSE /\ dnsCache' = [x \in DOMAIN dnsCache \cup {ip} |->
                                  IF x = ip THEN Name(ip, FALSE) ELSE dnsCache[x]]
               /\ placed' = [x \in DOMAIN placed \cup {ip} |->
                                IF x = ip
                                THEN (IF ip \in DOMAIN placed THEN placed[ip] ELSE 0) + 1
                                ELSE placed[x]]
               /\ lookups' = lookups \cup
                      {[ip |-> ip, pc |-> "pending",
                        id |-> Cardinality({l \in lookups : l.ip = ip}) + 1]}
               /\ calls' = [calls EXCEPT ![q].name = Name(ip, FALSE)]
       /\ dnsCacheMu' = "none"
       /\ Goto(q, "idle")
       /\ UNCHANGED <<lockRest, log, buckets, tcurrent, mu, pkt>>

\* the query's deferred t.mu.RUnlock()
QueryLeave(q) ==
    /\ At(q, "listing") /\ calls[q].todo = {}
    /\ mu' = [mu EXCEPT !.readers = @ \ {q}]
    /\ Goto(q, "idle")
    /\ UNCHANGED <<lockRest, log, buckets, tcurrent, pkt, dnsVars>>

\* the lookup's goroutine: net.LookupAddr, and on a name t.dnsCacheMu.Lock()
LookupLock ==
    /\ focus = "dns"
    /\ \E l \in lookups : \E names \in LookupAddr(l.ip) :
          /\ l.pc = "pending"
          /\ IF names = <<>>
             THEN /\ lookups' = (lookups \ {l}) \cup {[l EXCEPT !.pc = "done"]}
                  /\ dnsCacheMu' = dnsCacheMu
             ELSE /\ dnsCacheMu = "none"
                  /\ dnsCacheMu' = "lookup"
                  /\ lookups' = (lookups \ {l}) \cup {[l EXCEPT !.pc = "locked"]}
    /\ UNCHANGED <<lockRest, log, buckets, tcurrent, mu, pkt, tpc, calls, dnsCache, placed>>

\* the lookup's goroutine: t.dnsCache[ip] = name; t.dnsCacheMu.Unlock()
LookupStore ==
    /\ focus = "dns"
    /\ \E l \in lookups : \E names \in LookupAddr(l.ip) \ {<<>>} :
          /\ l.pc = "locked"
          /\ dnsCache' = [dnsCache EXCEPT ![l.ip] = TrimDot(names[1])]
          /\ lookups' = (lookups \ {l}) \cup {[l EXCEPT !.pc = "done"]}
    /\ dnsCacheMu' = "none"
    /\ UNCHANGED <<lockRest, log, buckets, tcurrent, mu, pkt, tpc, calls, placed>>

\* ----------------------------------------------- the geo cache, lock by lock
\* DB.Lookup with every acquisition of DB.mu a step of its own (focus "geo").
\* A *Result is the number of its allocation and the key it was made for.
NilResult == [ref |-> 0, key |-> ""]

Inside(q, pc) == focus = "geo" /\ tpc[q] = pc

\* what the steps of DB.Lookup leave alone
geoRest == <<focus, held, clockVars, stopCh, obsVars, log, procVars, spanCfg, spanVars,
             trackVars, mu, pkt, dnsCacheMu, dnsCache, lookups, placed, client, typeVars>>

\* a caller calls Lookup(ipStr) on an available database
GeoCall(q) ==
    /\ Inside(q, "idle")
    /\ \E ip \in Resolved : calls' = [calls EXCEPT ![q].ip = ip]
    /\ geoLocal' = [geoLocal EXCEPT ![q] = NilResult]
    /\ Goto(q, "read")
    /\ UNCHANGED <<geoRest, geoMu, geoCache, geoCount>>

\* Lookup: the look into the cache under db.mu.RLock()
GeoRead(q) ==
    /\ Inside(q, "read") /\ geoMu = "none"
    /\ IF calls[q].ip \in DOMAIN geoCache
       THEN /\ geoLocal' = [geoLocal EXCEPT ![q] = geoCache[calls[q].ip]]
            /\ Goto(q, "idle")
       ELSE /\ geoLocal' = geoLocal
            /\ Goto(q, "query")
    /\ UNCHANGED <<geoRest, calls, geoMu, geoCache, geoCount>>

\* Lookup: r := &Result{} and the lookups in the country and ASN databases,
\* with no lock held
GeoQuery(q) ==
    /\ Inside(q, "query")
    /\ geoLocal' = [geoLocal EXCEPT ![q] = [ref |-> geoCount.results + 1, key |-> calls[q].ip]]
    /\ geoCount' = [geoCount EXCEPT !.results = @ + 1, !.queries[calls[q].ip] = @ + 1]
    /\ Goto(q, "lock")
    /\ UNCHANGED <<geoRest, calls, geoMu, geoCache>>

\* Lookup: db.mu.Lock()
GeoLock(q) ==
    /\ Inside(q, "lock") /\ geoMu = "none"
    /\ geoMu' = q
    /\ Goto(q, "store")
    /\ UNCHANGED <<geoRest, calls, geoCache, geoLocal, geoCount>>

\* Lookup: db.cache[ipStr] = r; db.mu.Unlock(); return r
GeoStore(q) ==
    /\ Inside(q, "store")
    /\ geoCache' = [x \in DOMAIN geoCache \cup {calls[q].ip} |->
                       IF x = calls[q].ip THEN geoLocal[q] ELSE geoCache[x]]
    /\ geoCount' = [geoCount EXCEPT !.writes[calls[q].ip] = @ + 1]
    /\ geoMu' = "none"
    /\ Goto(q, "idle")
    /\ UNCHANGED <<geoRest, calls, geoLocal>>

\* ------------------------------------------------ the polling clients
\* The clients of the external backends (focus "backend"): one of the AdGuard
\* Home, NextDNS and UniFi clients, its polls and its snapshot.  What a fetch
\* of poll number k returns is written k: a snapshot is the record of the
\* polls its parts were fetched in.  The calls of Stop are followed step by
\* step, on a polling client and on a collector or the tracker (of which
\* only stopCh is followed here).
Kinds == {"adguard", "nextdns", "unifi"}
Stoppable == Kinds \cup {"collector", "tracker"}

\* the five fetches of the NextDNS poll, in its order
NextDNSParts == <<"status", "domains", "blocked", "clients", "statusTS">>

NewClient(kind) ==
    [kind |-> kind, polls |-> 0, stats |-> <<>>, detected |-> FALSE, unifiOS |-> FALSE,
     closes |-> 0, panicked |-> FALSE]

\* what the steps of a polling client leave alone
pollRest == <<focus, held, clockVars, stopCh, obsVars, log, procVars, spanCfg, spanVars,
              trackVars, tpc, mu, pkt, calls, dnsCacheMu, dnsCache, lookups, placed, geoVars,
              typeVars>>

Polling(kind) ==
    focus = "backend" /\ client.kind = kind /\ client.polls < MaxPolls /\ ~client.panicked

\* adguard.Client.poll: the snapshot after a poll whose fetch and decoding
\* of /control/stats went well (ok) or not
AdGuardPoll(ok) ==
    [client EXCEPT !.polls = @ + 1,
                   !.stats = IF ok THEN <<[control |-> client.polls + 1]>> ELSE @]

\* a NextDNS poll that stores the snapshot whatever the fetches gave
NextDNSPollStoringAnyway(failed) ==
    LET k == client.polls + 1
    IN [client EXCEPT
           !.polls = k,
           !.stats = <<[i \in 1..Len(NextDNSParts) |->
                           IF failed = 0 \/ i < failed THEN k ELSE 0]>>]

\* nextdns.Client.poll: the client after a poll whose fetch number failed
\* is the first to fail (0: none fails)
NextDNSPoll(failed) ==
    LET k == client.polls + 1
    IN [client EXCEPT
           !.polls = k,
           !.stats = IF failed = 0 THEN <<[i \in 1..Len(NextDNSParts) |-> k]>> ELSE @]

\* unifi.Client.loginURL, without the base URL
LoginURL(c) == IF c.unifiOS THEN "/api/auth/login" ELSE "/api/login"

\* a login that forgets the detected variant when it fails
LoginForgetting(c, osOk, legacyOk) ==
    IF ~c.detected
    THEN IF osOk THEN [ok |-> TRUE, c |-> [c EXCEPT !.unifiOS = TRUE, !.detected = TRUE]]
         ELSE IF legacyOk
         THEN [ok |-> TRUE, c |-> [c EXCEPT !.unifiOS = FALSE, !.detected = TRUE]]
         ELSE [ok |-> FALSE, c |-> c]
    ELSE IF (IF LoginURL(c) = "/api/auth/login" THEN osOk ELSE legacyOk)
         THEN [ok |-> TRUE, c |-> c]
         ELSE [ok |-> FALSE, c |-> [c EXCEPT !.detected = FALSE]]

\* unifi.Client.login against a controller whose UniFi OS endpoint answers
\* 200 (osOk) or not and whose legacy endpoint answers 200 (legacyOk) or not
Login(c, osOk, legacyOk) ==
    IF ~c.detected
    THEN IF osOk THEN [ok |-> TRUE, c |-> [c EXCEPT !.unifiOS = TRUE, !.detected = TRUE]]
         ELSE IF legacyOk
         THEN [ok |-> TRUE, c |-> [c EXCEPT !.unifiOS = FALSE, !.detected = TRUE]]
         ELSE [ok |-> FALSE, c |-> c]
    ELSE [ok |-> IF LoginURL(c) = "/api/auth/login" THEN osOk ELSE legacyOk, c |-> c]

\* unifi.Client.poll: login, fetchDevices, fetchClients, the summary
UniFiPoll(osOk, legacyOk, devOk, cliOk) ==
    LET k == client.polls + 1
        in == Login(client, osOk, legacyOk)
    IN [in.c EXCEPT
           !.polls = k,
           !.stats = IF in.ok /\ devOk /\ cliOk
                     THEN <<[devices |-> k, clients |-> k]>> ELSE @]

PollAdGuard ==
    /\ Polling("adguard")
    /\ \E ok \in BOOLEAN : client' = AdGuardPoll(ok)
    /\ UNCHANGED pollRest

PollNextDNS ==
    /\ Polling("nextdns")
    /\ \E failed \in 0..Len(NextDNSParts) : client' = NextDNSPoll(failed)
    /\ UNCHANGED pollRest

PollUniFi ==
    /\ Polling("unifi")
    /\ \E osOk, legacyOk, devOk, cliOk \in BOOLEAN :
          client' = UniFiPoll(osOk, legacyOk, devOk, cliOk)
    /\ UNCHANGED pollRest

\* what the steps of a call of Stop leave alone
stopRest == <<focus, held, clockVars, stopCh, obsVars, log, procVars, spanCfg, spanVars,
              trackVars, mu, pkt, calls, dnsCacheMu, dnsCache, lookups, placed, geoVars,
              typeVars>>

Stopping(q, pc) == focus = "backend" /\ ~client.panicked /\ tpc[q] = pc

\* close(c.stopCh): closing a closed channel panics
Close(c) ==
    IF c.closes = 0 THEN [c EXCEPT !.closes = 1] ELSE [c EXCEPT !.panicked = TRUE]

\* Collector.Stop, Tracker.Stop: close(c.stopCh)
StopBare(q) ==
    /\ Stopping(q, "idle") /\ client.kind \notin Kinds
    /\ client' = Close(client)
    /\ UNCHANGED <<tpc, stopRest>>

\* Client.Stop: select { case <-c.stopCh: default: ... }
StopSelect(q) ==
    /\ Stopping(q, "idle") /\ client.kind \in Kinds
    /\ tpc' = [tpc EXCEPT ![q] = IF client.closes > 0 THEN "idle" ELSE "close"]
    /\ UNCHANGED <<client, stopRest>>

\* Client.Stop: default: close(c.stopCh)
StopClose(q) ==
    /\ Stopping(q, "close")
    /\ client' = Close(client)
    /\ tpc' = [tpc EXCEPT ![q] = "idle"]
    /\ UNCHANGED stopRest

\* Available and GetSummary of a client: the stored snapshot, nil as <<>>
Available == client.stats # <<>>
GetSummary == client.stats

\* ------------------------------------------- the category of an interface
\* The part of poll that gives an interface its category (focus "types"):
\* one interface of the host, which comes and goes, and what sysfs says of
\* it at each poll.  A name is the sequence of its characters.
TypeNames ==
    { <<"e", "t", "h", "0">>, <<"l", "o">>, <<"t", "u", "n", "0">>, <<"T", "A", "P", "1">>,
      <<"w", "g", "0">>, <<"i", "p", "s", "e", "c", "0">>, <<"p", "p", "p", "0">>,
      <<"w", "w", "a", "n", "0">>, <<"l", "t", "e", "0">>, <<"e", "t", "h", "0", ".", "5">> }

\* what /sys/class/net/<name> can hold: the wireguard directory, the DEVTYPE
\* of uevent and the content of type ("none": no such line, no such file)
DevTypes == {"none", "vlan", "bridge", "bond", "ppp", "wireguard", "gre", "gretap",
             "ip6gre", "ip6tnl", "ipip", "sit", "vti", "wlan"}
ArpTypes == {"none", "1", "772", "65534", "512"}
Sysfs == [wireguard : BOOLEAN, devtype : DevTypes, type : ArpTypes]
NoSysfs == [wireguard |-> FALSE, devtype |-> "none", type |-> "none"]

\* strings.ToLower, strings.HasPrefix, strings.Contains
ToLower(s) ==
    [i \in 1..Len(s) |->
        CASE s[i] = "T" -> "t" [] s[i] = "A" -> "a" [] s[i] = "P" -> "p" [] OTHER -> s[i]]
HasPrefix(s, p) == Len(p) <= Len(s) /\ SubSeq(s, 1, Len(p)) = p
ContainsChar(s, ch) == \E i \in 1..Len(s) : s[i] = ch

\* detectIfaceType, step 4: the name alone
ByName(name) ==
    LET n == ToLower(name)
    IN IF HasPrefix(n, <<"t", "u", "n">>) \/ HasPrefix(n, <<"t", "a", "p">>) THEN "vpn"
       ELSE IF \/ HasPrefix(n, <<"p", "p", "p">>)
               \/ HasPrefix(n, <<"w", "w", "a", "n">>)
               \/ HasPrefix(n, <<"l", "t", "e">>) THEN "ppp"
       ELSE IF ContainsChar(n, ".") THEN "vlan"
       ELSE "physical"

\* detectIfaceType, step 2: the switch on DEVTYPE ("": no case taken)
ByDevType(dt) ==
    CASE dt = "vlan" -> "vlan"
      [] dt \in {"bridge", "bond"} -> "physical"
      [] dt = "ppp" -> "ppp"
      [] dt = "wireguard" -> "vpn"
      [] dt \in {"gre", "gretap", "ip6gre", "ip6tnl", "ipip", "sit", "vti"} -> "vpn"
      [] OTHER -> ""

\* detectIfaceType, step 3: the switch on type ("": no case taken)
ByArpType(t) ==
    CASE t = "772" -> "loopback"
      [] t = "65534" -> "vpn"
      [] t = "512" -> "ppp"
      [] OTHER -> ""

detectIfaceType(name, sys) ==
    IF sys.wireguard THEN "vpn"
    ELSE IF ByDevType(sys.devtype) # "" THEN ByDevType(sys.devtype)
    ELSE IF ByArpType(sys.type) # "" THEN ByArpType(sys.type)
    ELSE ByName(name)

\* a getIfaceType that detects at every call
getIfaceTypeAfresh(cache, name, sys) ==
    [t |-> detectIfaceType(name, sys), detected |-> TRUE,
     cache |-> [n \in DOMAIN cache \cup {name} |-> detectIfaceType(name, sys)]]

\* getIfaceType: the category returned, whether it was detected by this
\* call, and the cache after the call
getIfaceType(cache, name, sys) ==
    IF name \in DOMAIN cache
    THEN [t |-> cache[name], detected |-> FALSE, cache |-> cache]
    ELSE [t |-> detectIfaceType(name, sys), detected |-> TRUE,
          cache |-> [n \in DOMAIN cache \cup {name} |-> detectIfaceType(name, sys)]]

\* what the steps on the category leave alone
typeRest == <<focus, held, clockVars, stopCh, obsVars, log, procVars, spanCfg, spanVars,
              trackVars, tpc, mu, pkt, calls, dnsCacheMu, dnsCache, lookups, placed, geoVars,
              client>>

\* poll, as far as the category goes: the interface is in /proc/net/dev
\* (present) or not, and sysfs says sys of it.  An interface that is gone
\* leaves c.current, not the cache.  The detections are counted, and are not
\* followed beyond the second.
TypeTick ==
    /\ focus = "types" /\ ifaceStat.detections <= 1
    /\ \E present \in BOOLEAN, sys \in Sysfs :
          LET name == ifaceStat.name
              got  == getIfaceType(ifaceTypeCache, name, sys)
          IN IF present
             THEN /\ ifaceTypeCache' = got.cache
                  /\ ifaceStat' =
                        [ifaceStat EXCEPT
                            !.IfaceType = <<got.t>>,
                            !.detections = IF got.detected THEN @ + 1 ELSE @,
                            !.sys = IF got.detected THEN sys ELSE @,
                            !.polls = IF @ < MaxPolls THEN @ + 1 ELSE @]
             ELSE /\ ifaceTypeCache' = ifaceTypeCache
                  /\ ifaceStat' = [ifaceStat EXCEPT !.IfaceType = <<>>]
    /\ UNCHANGED typeRest

\* everything but the part of the program looked at and the caller's hands
Blank ==
    /\ wall \in (IF focus = "talkers" THEN 0..(BucketSize - 1) ELSE {0})
    /\ mono = 0 /\ clockStepped = FALSE /\ duplicated = FALSE
    /\ stopCh = FALSE /\ log = EmptyBag
    /\ ticks = 0 /\ regular = TRUE
    /\ procPc = "new" /\ procTick = FALSE
    /\ current = <<>> /\ previous = <<>> /\ history = <<>> /\ pollErr = FALSE
    /\ heap = <<>>
    /\ device \in (IF focus = "span" THEN {"", "eth1"} ELSE {"eth1"})
    /\ localNets \in (IF focus = "span" THEN {{}, ConfiguredNets} ELSE {ConfiguredNets})
    /\ spanPc = "new" /\ ratePc = "none" /\ rateTick = FALSE
    /\ acc = [rxBytes |-> 0, txBytes |-> 0, rxPackets |-> 0, txPackets |-> 0]
    /\ stat = NewStat
    /\ spanHistory = <<>>
    /\ prevSample = [rx |-> 0, tx |-> 0, time |-> [wall |-> 0, mono |-> 0]]
    /\ trackPc = "new" /\ capPc = "none" /\ rotPc = "none"
    /\ rotTick = FALSE /\ rotStart = 0
    /\ buckets = <<>> /\ tcurrent = <<>>
    /\ tpc = [g \in Goroutines |->
                 IF g = "run" THEN "new" ELSE IF g \in Callers THEN "idle" ELSE "none"]
    /\ mu = Unlocked /\ pkt = <<>>
    /\ calls = [q \in Callers |-> [todo |-> {}, ip |-> "", name |-> NoName]]
    /\ dnsCacheMu = "none" /\ dnsCache = <<>> /\ lookups = {} /\ placed = <<>>
    /\ client \in (IF focus = "backend" THEN {NewClient(k) : k \in Stoppable}
                   ELSE {NewClient("adguard")})
    /\ ifaceTypeCache = <<>>
    /\ ifaceStat \in
          { [name |-> n, IfaceType |-> <<>>, detections |-> 0, sys |-> NoSysfs, polls |-> 0] :
               n \in (IF focus = "types" THEN TypeNames ELSE {<<"l", "o">>}) }
    /\ geoMu = "none" /\ geoCache = <<>>
    /\ geoLocal = [q \in Callers |-> NilResult]
    /\ geoCount = [results |-> 0, queries |-> [ip \in Resolved |-> 0],
                   writes |-> [ip \in Resolved |-> 0]]

Init ==
    /\ focus \in {"proc", "span", "talkers"}
    /\ held = [of |-> "none", val |-> <<>>, changed |-> FALSE]
    /\ Blank

\* the running process
Next ==
    \/ Advance
    \/ ClockStep
    \/ DuplicateTick
    \/ ProcRun
    \/ ProcTick
    \/ SpanRun
    \/ SpanCapture
    \/ RateStart
    \/ RateTick
    \/ TrackRun
    \/ TrackCapture
    \/ RotTick

Spec == Init /\ [][Next]_vars

\* the ways its workers end
Shutdown ==
    \/ Stop
    \/ ProcExit
    \/ SpanReadError
    \/ SpanExit
    \/ RateExit
    \/ TrackExit
    \/ TrackReadError
    \/ TrackCapExit
    \/ RotExit

LifeNext == Next \/ Shutdown

LifeSpec == Init /\ [][LifeNext]_vars

\* The life of the process under the Go scheduler: a goroutine that can take
\* a step takes one in the end.  Run is started by main's go statements; a
\* select whose stop case is ready for ever takes it in the end (the choice
\* among ready cases is random); a capture loop tests stopCh before every
\* read, and a read returns within capTimeout.
Fairness ==
    /\ WF_vars(ProcRun) /\ WF_vars(ProcExit)
    /\ WF_vars(SpanRun) /\ WF_vars(SpanExit)
    /\ WF_vars(RateStart) /\ WF_vars(RateExit)
    /\ WF_vars(TrackRun) /\ WF_vars(TrackExit)
    /\ WF_vars(TrackCapExit) /\ WF_vars(RotExit)

FairLifeSpec == LifeSpec /\ Fairness

\* a collector, its clock without faults, and a caller of its read API
CallerInit == Init /\ focus \in {"proc", "span"}

CallerNext ==
    \/ Advance
    \/ ProcRun
    \/ ProcTick
    \/ SpanRun
    \/ SpanCapture
    \/ RateStart
    \/ RateTick
    \/ CallGetAll
    \/ CallGetHistory
    \/ CallerWrite

CallerSpec == CallerInit /\ [][CallerNext]_vars

\* --------------------------------------------------------------------------
\* The resampling of GetSparklines on its own: a selected run of history
\* points of any length up to SparkLen, resampled to any maximum.

\* a run of len history points, a second apart, no two with the same rates
Ramp(len) ==
    [k \in 1..len |-> [Timestamp |-> 1000 * k, RxRate |-> Frac(k, 1), TxRate |-> Frac(1, k)]]

SparkInit ==
    /\ focus = "sparklines"
    /\ \E len \in 1..SparkLen :
           held = [of |-> "points", val |-> Ramp(len), changed |-> FALSE]
    /\ Blank

\* the tail of GetSparklines: the selected points pts become the line
Resample ==
    /\ focus = "sparklines" /\ held.of = "points"
    /\ \E maxPoints \in 1..SparkLen :
           held' = [of |-> "line", changed |-> FALSE,
                    val |-> [pts |-> held.val, maxPoints |-> maxPoints,
                             out |-> Downsample(held.val, maxPoints)]]
    /\ UNCHANGED <<fixed, clockVars, stopCh, obsVars, log, procVars, spanCfg, spanVars,
                   trackVars>>

SparkNext == Resample

SparkSpec == SparkInit /\ [][SparkNext]_vars

\* --------------------------------------------------------------------------
\* The tracker's goroutines and two callers of its queries, interleaved at
\* the acquisitions of the locks.
LockInit ==
    /\ focus \in {"locks", "dns", "geo"}
    /\ held = [of |-> "none", val |-> <<>>, changed |-> FALSE]
    /\ Blank

LockNext ==
    \/ RunDevices \/ RunSetCurrent \/ RunGo
    \/ CapArrive \/ CapLock \/ CapWrite
    \/ RotLock \/ RotWrite
    \/ \E q \in Callers :
          \/ QueryEnter(q) \/ QueryNext(q) \/ QueryLeave(q)
          \/ ResolveCall(q) \/ ResolveRead(q) \/ ResolveLock(q) \/ ResolveStore(q)
          \/ GeoCall(q) \/ GeoRead(q) \/ GeoQuery(q) \/ GeoLock(q) \/ GeoStore(q)
    \/ LookupLock \/ LookupStore

LockSpec == LockInit /\ [][LockNext]_vars

\* --------------------------------------------------------------------------
\* A polling client of an external backend on its own.
PollInit ==
    /\ focus = "backend"
    /\ held = [of |-> "none", val |-> <<>>, changed |-> FALSE]
    /\ Blank

PollNext ==
    \/ PollAdGuard
    \/ PollNextDNS
    \/ PollUniFi
    \/ \E q \in Callers : StopBare(q) \/ StopSelect(q) \/ StopClose(q)

PollSpec == PollInit /\ [][PollNext]_vars

\* --------------------------------------------------------------------------
\* The category of an interface on its own.
TypeInit ==
    /\ focus = "types"
    /\ held = [of |-> "none", val |-> <<>>, changed |-> FALSE]
    /\ Blank

TypeSpec == TypeInit /\ [][TypeTick]_vars

\* ================================================================ claims
\* the histories the followed collector keeps
Histories ==
    IF focus = "proc" THEN {history[n] : n \in DOMAIN history}
    ELSE IF focus = "span" THEN {spanHistory}
    ELSE {}

\* the time of the collector's last tick that appended a point, in ms
LastStamp(h) == h[Len(h)].Timestamp

\* C1: the history of every interface, in both collectors, never holds more
\* than the count bound (86,400 in the source, HistoryPruneAt here) of points.
C1_HistoryWithinCount ==
    \A h \in Histories : Len(h) <= HistoryPruneAt

\* C2: after every collection tick, late and skipped ticks included, no
\* retained point is older than the maximum age (24 h in the source,
\* HistoryMaxAge here), counted from that tick's time.
C2_NoPointOlderThanMaxAge ==
    \A h \in Histories :
        \A i \in 1..Len(h) :
            h[i].Timestamp >= LastStamp(h) - HistoryMaxAge * 1000

\* C3: with count bound N, after K > N ticks at the fixed interval the
\* history holds exactly N points, the N most recent ones in time order.
C3_ExactlyNMostRecent ==
    (regular /\ ticks > HistoryPruneAt) =>
        \A h \in Histories :
            /\ Len(h) = HistoryPruneAt
            /\ LastStamp(h) >= UnixMilli(Now) - PollInterval * 1000
            /\ \A i \in 1..Len(h) :
                  h[i].Timestamp =
                      LastStamp(h) - (Len(h) - i) * PollInterval * 1000

\* r is exactly delta bytes over dt seconds
IsQuotient(r, delta, dt) == r.n * dt = delta * r.d

\* a poll of the kernel collector that stored a new baseline for n
ProcSampled(n) ==
    /\ n \in DOMAIN previous /\ n \in DOMAIN previous'
    /\ previous'[n].ts # previous[n].ts

\* C4, kernel collector: on a tick at dt > 0 seconds after the tick that
\* stored the baseline, a counter that did not decrease gives the rate
\* (current - previous) / dt exactly, for rx and for tx each on its own, and
\* the counters read become the baseline of the next tick.
C4_ProcRate ==
    \A n \in Ifaces :
        ProcSampled(n) =>
            LET p == previous[n]
                r == current'[n]
                dt == Sub(Now, p.ts)
            IN /\ previous'[n] =
                      [rxBytes |-> r.RxBytes, txBytes |-> r.TxBytes, ts |-> Now]
               /\ (dt > 0 /\ r.RxBytes >= p.rxBytes) =>
                      IsQuotient(r.RxRate, r.RxBytes - p.rxBytes, dt)
               /\ (dt > 0 /\ r.TxBytes >= p.txBytes) =>
                      IsQuotient(r.TxRate, r.TxBytes - p.txBytes, dt)

\* C4, capture collector: the same for the one aggregate of the rate loop
C4_SpanRate ==
    (rateTick /\ ~rateTick') =>
        LET p == prevSample
            dt == Sub(Now, p.time)
        IN dt > 0 =>
              /\ stat'.RxBytes = acc.rxBytes /\ stat'.TxBytes = acc.txBytes
              /\ prevSample' =
                     [rx |-> acc.rxBytes, tx |-> acc.txBytes, time |-> Now]
              /\ acc.rxBytes >= p.rx =>
                     IsQuotient(stat'.RxRate, acc.rxBytes - p.rx, dt)
              /\ acc.txBytes >= p.tx =>
                     IsQuotient(stat'.TxRate, acc.txBytes - p.tx, dt)

\* C4: in both collectors the rate of a tick is (current - previous) / elapsed
\* exactly, for non-decreasing counters and a positive elapsed time, for rx
\* and tx independently, previous being what the preceding tick stored.
C4_RateIsDeltaOverElapsed == [][C4_ProcRate /\ C4_SpanRate]_vars

\* a late tick of the kernel collector has divided unequal rx and tx deltas
\* by the two seconds since the baseline
C4_Witness ==
    /\ focus = "proc"
    /\ \E n \in DOMAIN current :
          /\ n \in DOMAIN history /\ history[n] # <<>>
          /\ current[n].RxRate = [n |-> 1, d |-> 2]
          /\ current[n].TxRate = [n |-> 1, d |-> 1]

\* ------------------------------------------------------ tracker's claims
\* the addresses frames carry
Addresses == ({f.src : f \in Frames} \cup {f.dst : f \in Frames}) \ {""}

\* the addresses the tracker accounts for
Remote == {ip \in Addresses : ~isPrivateIP(ip)}

\* the values of n the queries are asked with: from none to all of them
Requests == 0..Cardinality(Remote)

\* how many of f's two endpoints are the non-local address ip
Roles(f, ip) ==
    IF f.ip = 0 \/ isPrivateIP(ip) THEN 0
    ELSE (IF f.src = ip THEN 1 ELSE 0) + (IF f.dst = ip THEN 1 ELSE 0)

\* the accumulators of bucket pointer c (Tracker.current, or <<b>>)
HostBytes(c, ip) ==
    IF c # <<>> /\ ip \in DOMAIN c[1].hosts THEN c[1].hosts[ip].bytes ELSE 0
HostPackets(c, ip) ==
    IF c # <<>> /\ ip \in DOMAIN c[1].hosts THEN c[1].hosts[ip].packets ELSE 0
ProtoBytes(c, proto) ==
    IF c # <<>> /\ proto \in DOMAIN c[1].protoBytes THEN c[1].protoBytes[proto] ELSE 0

\* the step is the tracker's processing of frame f
Ingested(f) ==
    focus = "talkers" /\ log' = log (+) SetToBag({[f |-> f, gen |-> ticks]})

\* C5: ingesting one IP packet of length P adds, in the open bucket, P bytes
\* and one packet to the accumulator of each endpoint that is non-local
\* (both of them when both are, only the non-local one otherwise) and P to
\* the total of the packet's L4 class; no other accumulator changes.
C5_Ingest ==
    \A f \in Frames :
        (Ingested(f) /\ f.ip # 0) =>
            /\ \A ip \in Addresses :
                  /\ HostBytes(tcurrent', ip) =
                         HostBytes(tcurrent, ip) + Roles(f, ip) * PktLen(f)
                  /\ HostPackets(tcurrent', ip) =
                         HostPackets(tcurrent, ip) + Roles(f, ip)
            /\ ProtoBytes(tcurrent', f.l4) = ProtoBytes(tcurrent, f.l4) + PktLen(f)
C5_IngestAddsLength == [][C5_Ingest]_vars

\* one TCP packet between two non-local addresses and one packet with a
\* single non-local endpoint are in the open bucket
C5_Witness ==
    /\ focus = "talkers"
    /\ HostBytes(tcurrent, "8.8.8.8") = 5 /\ HostPackets(tcurrent, "8.8.8.8") = 2
    /\ HostBytes(tcurrent, "1.1.1.1") = 2 /\ HostPackets(tcurrent, "1.1.1.1") = 1
    /\ HostBytes(tcurrent, "10.0.0.5") = 0
    /\ ProtoBytes(tcurrent, "TCP") = 5

\* the frames of the log that arrived since the oldest retained bucket was
\* opened: bucket number g holds the frames that g rotations preceded
SinceOldest == {e \in DOMAIN log : e.gen >= ticks - Len(buckets)}

RECURSIVE BytesOf(_, _)
BytesOf(E, ip) ==
    IF E = {} THEN 0
    ELSE LET e == CHOOSE x \in E : TRUE
         IN log[e] * Roles(e.f, ip) * PktLen(e.f) + BytesOf(E \ {e}, ip)

RECURSIVE PacketsOf(_, _)
PacketsOf(E, ip) ==
    IF E = {} THEN 0
    ELSE LET e == CHOOSE x \in E : TRUE
         IN log[e] * Roles(e.f, ip) + PacketsOf(E \ {e}, ip)

\* the sum of ip's accumulators over bs[1..k]
RECURSIVE AccBytes(_, _, _)
AccBytes(bs, k, ip) ==
    IF k = 0 THEN 0 ELSE HostBytes(<<bs[k]>>, ip) + AccBytes(bs, k - 1, ip)

RECURSIVE AccPackets(_, _, _)
AccPackets(bs, k, ip) ==
    IF k = 0 THEN 0 ELSE HostPackets(<<bs[k]>>, ip) + AccPackets(bs, k - 1, ip)

\* C6: for every remote IP, what TopByVolume reports as total_bytes and
\* packets is the sum of its accumulators over the retained sealed buckets
\* and the open one, which is the sum over every packet attributed to it
\* since the oldest retained bucket, however many rotations came in between;
\* and every IP with such a packet is reported.
C6_VolumeIsSumSinceOldest ==
    focus = "talkers" =>
        /\ \A l \in TopByVolume(Cardinality(Remote)) : \A i \in 1..Len(l) :
              LET ip == l[i].IP
                  all == buckets \o tcurrent
              IN /\ l[i].TotalBytes = AccBytes(all, Len(all), ip)
                 /\ l[i].Packets = AccPackets(all, Len(all), ip)
                 /\ l[i].TotalBytes = BytesOf(SinceOldest, ip)
                 /\ l[i].Packets = PacketsOf(SinceOldest, ip)
        /\ \A ip \in Addresses :
              PacketsOf(SinceOldest, ip) > 0 =>
                  \A l \in TopByVolume(Cardinality(Remote)) :
                      \E i \in 1..Len(l) : l[i].IP = ip

\* two packets of 3 and 2 bytes from one remote address, a rotation apart,
\* are reported as 5 bytes and 2 packets
C6_Witness ==
    /\ focus = "talkers" /\ Len(buckets) >= 1
    /\ \E e1, e2 \in DOMAIN log : e1.gen # e2.gen
    /\ \E l \in TopByVolume(1) :
          /\ Len(l) = 1 /\ l[1].IP = "8.8.8.8"
          /\ l[1].TotalBytes = 5 /\ l[1].Packets = 2

\* the remote IPs each query ranges over
InScopeVolume ==
    UNION {DOMAIN (buckets \o tcurrent)[k].hosts : k \in 1..Len(buckets \o tcurrent)}
InScopeBandwidth == IF tcurrent = <<>> THEN {} ELSE DOMAIN tcurrent[1].hosts

\* C7: for every requested n (n >= 0) and every tracker state, TopByVolume(n)
\* and TopByBandwidth(n) return exactly min(n, number of distinct remote IPs
\* in scope) entries, so never more than n.
C7_ResultLength ==
    focus = "talkers" =>
        \A n \in Requests :
            /\ \A l \in TopByVolume(n) :
                  Len(l) = Min(n, Cardinality(InScopeVolume))
            /\ \A l \in TopByBandwidth(n) :
                  Len(l) = Min(n, Cardinality(InScopeBandwidth))

\* three remote IPs over the window and two in the open bucket: a request
\* for one entry is cut to one, a request for four gets them all
C7_Witness ==
    /\ focus = "talkers"
    /\ Cardinality(InScopeVolume) = 3 /\ Cardinality(InScopeBandwidth) = 2
    /\ \E l \in TopByVolume(1) : Len(l) = 1
    /\ \E l \in TopByBandwidth(4) : Len(l) = 2

\* the IPs of a result
Listed(l) == {l[i].IP : i \in 1..Len(l)}

\* C8 as stated: results are in strictly descending order of their metric,
\* also when two remote IPs have equal totals, and are the n largest.
C8_StrictlyDescending ==
    focus = "talkers" =>
        \A n \in Requests :
            /\ \A l \in TopByVolume(n) : \A i, j \in 1..Len(l) :
                  i < j => l[i].TotalBytes > l[j].TotalBytes
            /\ \A l \in TopByBandwidth(n) : \A i, j \in 1..Len(l) :
                  i < j => RateLess(l[i], l[j])

\* C8, amended: results are in descending order of their metric, entries
\* with equal metrics in any order, and no IP left out has a larger metric
\* than an IP returned.
C8_Descending ==
    focus = "talkers" =>
        \A n \in Requests :
            /\ \A l \in TopByVolume(n) :
                  /\ \A i, j \in 1..Len(l) :
                        i < j => l[i].TotalBytes >= l[j].TotalBytes
                  /\ \A ip \in InScopeVolume \ Listed(l) : \A i \in 1..Len(l) :
                        BytesOf(SinceOldest, ip) <= l[i].TotalBytes
            /\ \A l \in TopByBandwidth(n) :
                  /\ \A i, j \in 1..Len(l) :
                        i < j => ~RateLess(l[j], l[i])
                  /\ \A ip \in InScopeBandwidth \ Listed(l) : \A i \in 1..Len(l) :
                        HostBytes(tcurrent, ip) <= l[i].TotalBytes

\* two remote IPs with equal totals and a third with more: the first entry
\* is the larger one, the two equal ones follow in either order
C8_Witness ==
    /\ focus = "talkers"
    /\ \E l \in TopByVolume(3) :
          /\ Len(l) = 3
          /\ l[1].TotalBytes > l[2].TotalBytes
          /\ l[2].TotalBytes = l[3].TotalBytes
    /\ Cardinality(TopByVolume(3)) = 2

\* the windows and sizes sparklines are asked with
Durations == 1..HistoryMaxAge
Sizes == 1..HistoryPruneAt

\* the capture collector could not start: no device, no local networks, or
\* Run has returned without a rate loop
SpanNotStarted ==
    focus = "span" /\ (device = "" \/ localNets = {} \/ (spanPc = "done" /\ ratePc = "none"))

\* the tracker could not start: Run has returned without a rotation loop, or
\* the capture goroutine ended before a frame
TrackerNotStarted ==
    /\ focus = "talkers"
    /\ (trackPc = "done" /\ rotPc = "none") \/ (capPc = "done" /\ DOMAIN log = {})

\* C9: when the capture path cannot start (no device, no local networks,
\* enumeration or open failure) the collector stops, and every query is
\* answered at any later time: GetAll with zero rates, the history and
\* sparkline queries with no points, TopByVolume and TopByBandwidth with an
\* empty list.
C9_FailedStartAnswersEmpty ==
    /\ SpanNotStarted =>
          /\ spanPc # "capture" /\ ratePc = "none"
          /\ Len(SpanGetAll) = 1
          /\ SpanGetAll[1].RxRate = Zero /\ SpanGetAll[1].TxRate = Zero
          /\ \A d \in DOMAIN SpanGetHistory : SpanGetHistory[d] = <<>>
          /\ \A d \in Durations, m \in Sizes : SpanGetSparklines(d, m) = <<>>
    /\ TrackerNotStarted =>
          \A n \in Requests :
              TopByVolume(n) = {<<>>} /\ TopByBandwidth(n) = {<<>>}

\* a capture collector without local networks, two seconds after its Run
\* returned
C9_Witness ==
    /\ focus = "span" /\ device # "" /\ localNets = {}
    /\ spanPc = "done" /\ mono >= 2

\* the rotations fall on bucket boundaries of the wall clock
Aligned == (wall - mono + rotStart) % BucketSize = 0

\* C10 as stated: once the rotation has run for longer than the window, the
\* count of sealed buckets after each rotation is exactly the window's
\* number of buckets (1,440 in the source, MaxBuckets here) for every start
\* time of the tracker, and it never exceeds that number.
C10_AlwaysExactlyMaxBuckets ==
    focus = "talkers" =>
        /\ Len(buckets) <= MaxBuckets
        /\ (regular /\ ticks > MaxBuckets) => Len(buckets) = MaxBuckets

\* C10, amended: while every rotation runs on time and the wall clock is not
\* set back, the count of sealed buckets never exceeds MaxBuckets, and from
\* the rotation that completes the window on it is MaxBuckets when the
\* rotations fall on bucket boundaries and MaxBuckets - 1 when they do not.
C10_StableCount ==
    (focus = "talkers" /\ regular) =>
        /\ Len(buckets) <= MaxBuckets
        /\ ticks >= MaxBuckets =>
              Len(buckets) = IF Aligned THEN MaxBuckets ELSE MaxBuckets - 1

\* a tracker started off the boundary, past its window, one bucket short
C10_Witness ==
    /\ focus = "talkers" /\ regular /\ ~Aligned
    /\ ticks > MaxBuckets
    /\ Len(buckets) = MaxBuckets - 1

\* a sealed bucket no older than age before the wall clock's reading
NotOlderThan(b, age) == b.timestamp >= wall - age

\* C11 as stated: at every instant every retained sealed bucket, the oldest
\* included, has a timestamp within the last 24 hours (TalkerMaxAge here).
C11_AlwaysWithinWindow ==
    focus = "talkers" =>
        \A k \in 1..Len(buckets) : NotOlderThan(buckets[k], TalkerMaxAge)

\* a rotation step of the followed tracker
C11_Rotated == focus = "talkers" /\ ticks' = ticks + 1

\* C11, amended: while the wall clock is not set back, right after every
\* rotation no retained sealed bucket is older than the window; between
\* rotations that run on time the oldest one is older than the window by at
\* most one bucket width.
C11_WithinWindowAtRotation ==
    /\ [][(C11_Rotated /\ ~clockStepped') =>
             \A k \in 1..Len(buckets') :
                 buckets'[k].timestamp >= wall' - TalkerMaxAge]_vars
    /\ []((focus = "talkers" /\ regular) =>
             \A k \in 1..Len(buckets) :
                 NotOlderThan(buckets[k], TalkerMaxAge + BucketSize))

\* between two rotations on time, the oldest sealed bucket is older than the
\* window
C11_Witness ==
    /\ focus = "talkers" /\ regular /\ buckets # <<>>
    /\ ~NotOlderThan(buckets[1], TalkerMaxAge)
    /\ NotOlderThan(buckets[1], TalkerMaxAge + BucketSize)

\* the suffix of h that GetSparklines selects for a duration: everything from
\* the first point that is not older than the cutoff
Selected(h, duration) ==
    LET cutoff == UnixMilli(Add(Now, -duration))
        fresh  == {i \in 1..Len(h) : h[i].Timestamp >= cutoff}
    IN IF fresh = {} THEN <<>>
       ELSE SubSeq(h, CHOOSE i \in fresh : \A j \in fresh : i <= j, Len(h))

\* the spark points of a run of history points
SparkPoints(pts) == [i \in 1..Len(pts) |-> [RX |-> pts[i].RxRate, TX |-> pts[i].TxRate]]

\* the maxima a caller asks for
Maxima == 0..(HistoryPruneAt + 1)

\* what C12 asks of the sparkline sp computed from the selected suffix sel
C12_Shaped(sp, sel, m) ==
    /\ Len(sp) = Min(Len(sel), m)
    /\ Len(sel) <= m => sp = SparkPoints(sel)

\* C12: GetSparklines over a selected suffix of L points with maximum M
\* returns min(L, M) points for the interface, and the suffix itself, same
\* points in the same order, when L <= M; an interface with no selected
\* point is left out (L = 0).
C12_SparklineLength ==
    \A d \in Durations, m \in Maxima :
        /\ focus = "proc" =>
              \A n \in DOMAIN history :
                  LET sel == Selected(history[n], d)
                      out == ProcGetSparklines(d, m)
                  IN IF sel = <<>> THEN n \notin DOMAIN out
                     ELSE n \in DOMAIN out /\ C12_Shaped(out[n], sel, m)
        /\ focus = "span" =>
              LET sel == Selected(spanHistory, d)
                  out == SpanGetSparklines(d, m)
              IN IF sel = <<>> THEN out = <<>>
                 ELSE DOMAIN out = {device} /\ C12_Shaped(out[device], sel, m)

\* a history whose selected suffix is longer than a maximum asked for and
\* another request that it fits
C12_Witness ==
    \E h \in Histories :
        /\ Len(Selected(h, HistoryMaxAge)) > HistoryPruneAt
        /\ Len(Selected(h, PollInterval)) \in 1..HistoryPruneAt

\* C13 as stated: at every instant of the tracker's life exactly one bucket
\* is current; no reachable state has no open bucket.
C13_ExactlyOneCurrent == focus = "talkers" => Len(tcurrent) = 1

\* C13, amended: a tracker has no current bucket from its construction until
\* Run has enumerated a device, and for ever when Run returns early; from
\* then on it has exactly one, a rotation replacing it in one step; a frame
\* is credited to the current bucket alone, the sealed ones stay as they are.
C13_OneCurrentOnceRunning ==
    /\ [](focus = "talkers" =>
             /\ rotPc = "none" => tcurrent = <<>>
             /\ rotPc # "none" => Len(tcurrent) = 1)
    /\ [][(focus = "talkers" /\ log' # log) =>
             /\ buckets' = buckets
             /\ Len(tcurrent') = 1]_vars

\* a running tracker that has rotated and has credited a frame since
C13_Witness ==
    /\ focus = "talkers" /\ rotPc = "loop" /\ buckets # <<>>
    /\ Len(tcurrent) = 1 /\ tcurrent[1].hosts # <<>>

\* g is h after a tick: a suffix of h, with at most one point appended
Extends(h, g) ==
    \E k \in 0..Len(h) :
        LET kept == SubSeq(h, k + 1, Len(h))
        IN g = kept \/ (g # <<>> /\ SubSeq(g, 1, Len(g) - 1) = kept)

\* the timestamps of h increase strictly
StrictlyOrdered(h) == \A i \in 1..(Len(h) - 1) : h[i].Timestamp < h[i + 1].Timestamp

\* C14 as stated: every history is strictly time-ordered, each appended point
\* later than the one before it, whatever the ticks and the clock do
\* (duplicate ticks and clock rollbacks included), and a step changes a
\* history only by appending a point and removing a prefix.
C14_StrictlyOrderedAppendOnly ==
    /\ [](\A h \in Histories : StrictlyOrdered(h))
    /\ [][/\ focus = "proc" =>
                \A n \in DOMAIN history :
                    n \in DOMAIN history' /\ Extends(history[n], history'[n])
          /\ focus = "span" => Extends(spanHistory, spanHistory')]_vars

\* C15: a tick of the kernel-counter collector on which the read of the
\* counter table fails leaves the current snapshots, the baselines and the
\* histories exactly as they were.
C15_FailedPollChangesNothing ==
    [][(focus = "proc" /\ ticks' = ticks + 1 /\ pollErr') =>
          UNCHANGED <<current, previous, history>>]_vars

\* a failed poll of a collector that has snapshots, baselines and histories
C15_Witness ==
    /\ focus = "proc" /\ pollErr /\ ~procTick
    /\ current # <<>> /\ previous # <<>>
    /\ \E n \in DOMAIN history : history[n] # <<>>

\* a successful poll of the kernel-counter collector
Polled == focus = "proc" /\ ticks' = ticks + 1 /\ ~pollErr'

\* C16 as stated: an interface absent from a fresh enumeration leaves the
\* tracked set on that tick, and when it reappears it starts as an unseen
\* interface: no rate is computed against its counters from before the
\* removal, and nothing recorded for it before the removal is taken up again.
C16_ReappearsFresh ==
    [][Polled =>
          /\ \A n \in DOMAIN current \ DOMAIN current' : n \notin DOMAIN previous'
          /\ \A n \in DOMAIN current' \ DOMAIN current :
                /\ current'[n].RxRate = Zero /\ current'[n].TxRate = Zero
                /\ n \in DOMAIN history' => history'[n] = <<>>]_vars

\* every worker of the followed component has returned, or was never started
\* because Run returned before starting it
Terminated ==
    /\ focus = "proc" => procPc = "done"
    /\ focus = "span" => spanPc = "done" /\ ratePc \in {"none", "done"}
    /\ focus = "talkers" =>
          /\ trackPc = "done"
          /\ capPc \in {"none", "done"}
          /\ rotPc \in {"none", "done"}

\* C17: once Stop has raised the shutdown signal, every worker terminates in
\* the end: the capture loops, the rate loop, the rotation loop and the
\* kernel-counter poll loop each return, none runs for ever.
C17_StopTerminatesWorkers == stopCh ~> Terminated

\* a stopped capture collector whose capture loop and rate loop both ran and
\* have returned
C17_Witness ==
    /\ focus = "span" /\ stopCh
    /\ spanPc = "done" /\ ratePc = "done" /\ ticks >= 1

\* an InterfaceStat with its Addrs slice read through
Deref(st) == [st EXCEPT !.Addrs = IF @ = <<>> THEN <<>> ELSE heap[@[1]]]

\* what the caller reads in the value it holds
HeldView ==
    IF held.of = "GetAll" THEN [k \in DOMAIN held.val |-> Deref(held.val[k])]
    ELSE held.val

\* what the collector's state reads as: snapshots, baselines and histories
LiveView ==
    IF focus = "proc"
    THEN [all |-> [n \in DOMAIN current |-> Deref(current[n])],
          prev |-> previous, hist |-> history]
    ELSE [all |-> Deref(stat), prev |-> prevSample, hist |-> spanHistory]

\* C18 as stated: GetAll and GetHistory return copies: no step of the
\* collector changes a value a caller holds, and nothing the caller does to
\* that value changes the collector's state.
C18_ReturnsCopies ==
    [][IF held' # held THEN LiveView' = LiveView ELSE HeldView' = HeldView]_vars

\* The seconds since the current bucket was opened, floored at one, while
\* every rotation has run as its tick fired: the first bucket is opened when
\* the rotation ticker is made, each later one by the rotation that sealed
\* its predecessor.  One unit of the clock is 30 seconds.
SinceOpened ==
    LET e == (mono - (rotStart + ticks * BucketSize)) * 30
    IN IF e < 1 THEN 1 ELSE e

\* C19 as stated, for the runs in which every rotation is on time and the
\* clock has no fault: every entry TopByBandwidth returns is a host of the
\* current bucket, and its rate is that bucket's bytes for the host divided
\* by max(1, seconds since the bucket was opened); a host that has bytes in
\* sealed buckets only is not returned.
C19_RateSinceOpened ==
    (focus = "talkers" /\ regular /\ tcurrent # <<>>) =>
        \A l \in TopByBandwidth(Cardinality(Remote)) : \A i \in DOMAIN l :
            /\ l[i].IP \in DOMAIN tcurrent[1].hosts
            /\ l[i].RateBytes = Frac(tcurrent[1].hosts[l[i].IP].bytes, SinceOpened)

\* C20 for the kernel-counter collector: a poll that finds, for an interface
\* with a baseline, no time elapsed since that baseline publishes the new
\* counters and makes them the baseline, and computes no rate.
C20_Proc ==
    (Polled /\ ~pollErr') =>
        \A stats \in ProcNetDev : pollTable(stats) =>
            \A n \in DOMAIN stats \cap DOMAIN previous :
                Sub(Now, previous[n].ts) <= 0 =>
                    /\ current'[n].RxBytes = stats[n].rxBytes
                    /\ current'[n].TxBytes = stats[n].txBytes
                    /\ previous'[n] = [rxBytes |-> stats[n].rxBytes,
                                       txBytes |-> stats[n].txBytes, ts |-> Now]
                    /\ current'[n].RxRate = Zero /\ current'[n].TxRate = Zero

\* C20 for the capture collector: a tick of the rate loop on which no time
\* has elapsed since the last sample publishes the accumulated counters and
\* makes them the baseline.
C20_Span ==
    (focus = "span" /\ ticks' = ticks + 1 /\ Sub(Now, prevSample.time) <= 0) =>
        /\ stat'.RxBytes = acc.rxBytes /\ stat'.TxBytes = acc.txBytes
        /\ prevSample'.rx = acc.rxBytes /\ prevSample'.tx = acc.txBytes

\* C20 as stated: on a tick whose elapsed time since the previous sample is
\* not positive, the counters read are still recorded (the published
\* snapshot and the baseline take the new counters) and no rate is computed,
\* in the kernel-counter collector and in the capture collector alike.
C20_SnapshotWithoutRate == [][C20_Proc /\ C20_Span]_vars

\* the history the kernel-counter collector keeps for n, none being empty
HistoryOf(n) == IF n \in DOMAIN history THEN history[n] ELSE <<>>

\* g is h with exactly one point, stamped now, appended and a prefix removed
OneAppended(h, g) ==
    /\ g # <<>> /\ g[Len(g)].Timestamp = UnixMilli(Now)
    /\ \E k \in 0..Len(h) : SubSeq(g, 1, Len(g) - 1) = SubSeq(h, k + 1, Len(h))

\* C21 as stated: every tick appends one point for each interface observed
\* on it, the first tick that observes the interface included, so that after
\* k ticks, and before any pruning, a history has exactly k points.
C21_OnePointPerTick ==
    regular =>
        /\ focus = "proc" =>
              \A n \in DOMAIN current :
                  (ticks <= HistoryPruneAt => Len(HistoryOf(n)) = ticks)
        /\ focus = "span" =>
              (ticks <= HistoryPruneAt => Len(spanHistory) = ticks)

\* C21, amended: a poll of the kernel-counter collector appends exactly one
\* point for each enumerated interface that has a baseline and none for an
\* interface it observes for the first time; a tick of the capture collector
\* appends exactly one point, the first tick included, unless no time has
\* elapsed since the last sample, when it appends none.  So, while nothing
\* is pruned, k polls that observe an interface leave k - 1 points, and k
\* ticks of the capture collector leave k.
C21_OnePointPerSampledTick ==
    /\ [][/\ Polled =>
                \A n \in DOMAIN current' :
                    IF n \in DOMAIN previous /\ n \in DOMAIN current
                    THEN OneAppended(HistoryOf(n), history'[n])
                    ELSE (n \in DOMAIN history' => history'[n] = HistoryOf(n))
          /\ (focus = "span" /\ ticks' = ticks + 1) =>
                IF Sub(Now, prevSample.time) > 0
                THEN OneAppended(spanHistory, spanHistory')
                ELSE spanHistory' = spanHistory]_vars
    /\ [](regular =>
             /\ focus = "proc" =>
                   \A n \in DOMAIN current :
                       (ticks <= HistoryPruneAt + 1 => Len(HistoryOf(n)) = ticks - 1)
             /\ focus = "span" =>
                   (ticks <= HistoryPruneAt => Len(spanHistory) = ticks))

\* two polls have observed an interface, which has one point; or two ticks
\* of the capture collector have left two points
C21_Witness ==
    /\ regular /\ ticks = 2
    /\ \/ focus = "proc" /\ \E n \in DOMAIN current : Len(HistoryOf(n)) = 1
       \/ focus = "span" /\ Len(spanHistory) = 2

\* --------------------------------------------------------------------------
\* a line resampled from more points than the maximum asked for
Resampled ==
    focus = "sparklines" /\ held.of = "line" /\ Len(held.val.pts) > held.val.maxPoints

\* the index, from 0, of the point the i-th point (from 0) of the line was
\* taken from; the points of a run differ, so there is at most one
TakenFrom(i) ==
    LET sp == SparkPoints(held.val.pts)
    IN CHOOSE k \in 0..(Len(sp) - 1) : sp[k + 1] = held.val.out[i + 1]

\* C22 as stated: a line of M points resampled from L > M points holds, for
\* i = 0..M-1, the point at index floor(i * L / M).
C22_FloorIndices ==
    Resampled =>
        LET sp == SparkPoints(held.val.pts)
            L  == Len(sp)
            M  == held.val.maxPoints
        IN /\ Len(held.val.out) = M
           /\ \A i \in 0..(M - 1) : held.val.out[i + 1] = sp[(i * L) \div M + 1]

\* C22: a line of M >= 1 points resampled from L > M points holds M existing
\* points, none interpolated; the indices they are taken from start at 0,
\* strictly increase and stay below L, so the line is a subsequence of the
\* run in its order; the i-th index is floor(i * L / M), or one less than
\* that where i * L / M is whole and the rounded product falls short of it.
C22_NearFloorIndices ==
    Resampled =>
        LET sp == SparkPoints(held.val.pts)
            L  == Len(sp)
            M  == held.val.maxPoints
        IN /\ Len(held.val.out) = M
           /\ \A i \in 0..(M - 1) : \E k \in 1..L : held.val.out[i + 1] = sp[k]
           /\ TakenFrom(0) = 0
           /\ \A i \in 0..(M - 1) :
                 /\ TakenFrom(i) < L
                 /\ i > 0 => TakenFrom(i - 1) < TakenFrom(i)
                 /\ \/ TakenFrom(i) = (i * L) \div M
                    \/ (i * L) % M = 0 /\ TakenFrom(i) = (i * L) \div M - 1

\* a line with a point taken from one index before floor(i * L / M)
C22_Witness ==
    /\ Resampled
    /\ \E i \in 1..(held.val.maxPoints - 1) :
           TakenFrom(i) = (i * Len(held.val.pts)) \div held.val.maxPoints - 1

\* --------------------------------------------------------------------------
\* the cutoff of the tracker's pruning pass at this instant
BucketCutoff == Add(Now, -TalkerMaxAge).wall

\* a second pruning pass at this instant over what a first pass has left
\* removes nothing: of the histories and of the sealed buckets
PrunedStays ==
    /\ focus = "proc" =>
          \A n \in DOMAIN history :
              Prune(Prune(history[n], Now), Now) = Prune(history[n], Now)
    /\ focus = "span" =>
          Prune(Prune(spanHistory, Now), Now) = Prune(spanHistory, Now)
    /\ focus = "talkers" =>
          DropBefore(DropBefore(buckets, BucketCutoff), BucketCutoff)
              = DropBefore(buckets, BucketCutoff)

\* C23: pruning is idempotent. At every instant, a second pass of the history
\* pruning (and of the bucket pruning) over the result of a first pass at the
\* same instant leaves it unchanged; and a history or bucket list that a tick
\* has just appended to and pruned is left unchanged by a further pass at the
\* instant of the tick.
C23_PruningIdempotent ==
    /\ [](PrunedStays)
    /\ [][/\ Polled =>
                \A n \in DOMAIN history' :
                    (history'[n] # HistoryOf(n) => Prune(history'[n], Now) = history'[n])
          /\ (focus = "span" /\ ticks' = ticks + 1) =>
                Prune(spanHistory', Now) = spanHistory'
          /\ C11_Rotated => DropBefore(buckets', BucketCutoff) = buckets']_vars

\* a history from which the pass removes more than one point at this instant
C23_Witness ==
    /\ focus = "proc"
    /\ \E n \in DOMAIN history : Len(Prune(history[n], Now)) + 1 < Len(history[n])

\* --------------------------------------------------------------------------
\* (cur - prev) / dt with the difference taken in the integers, so that a
\* counter that went down gives a negative rate
SignedRate(cur, prev, dt) ==
    LET g == GCD(IF cur < prev THEN prev - cur ELSE cur - prev, dt)
    IN [n |-> (cur - prev) \div g, d |-> dt \div g]

\* C24 as stated: when a byte counter of an interface went down between two
\* consecutive samples taken a positive time apart, the rate published by
\* the poll is the negative value (current - previous) / elapsed.
C24_NegativeRatePublished ==
    [][Polled =>
          \A n \in DOMAIN current' \cap DOMAIN previous :
              LET dt == Sub(Now, previous[n].ts)
              IN /\ (dt > 0 /\ current'[n].RxBytes < previous[n].rxBytes) =>
                       current'[n].RxRate
                           = SignedRate(current'[n].RxBytes, previous[n].rxBytes, dt)
                 /\ (dt > 0 /\ current'[n].TxBytes < previous[n].txBytes) =>
                       current'[n].TxRate
                           = SignedRate(current'[n].TxBytes, previous[n].txBytes, dt)]_vars

\* --------------------------------------------------------------------------
\* the IP-version total of bucket pointer c
IPVerBytes(c, version) ==
    IF c # <<>> /\ version \in DOMAIN c[1].ipVerBytes THEN c[1].ipVerBytes[version] ELSE 0

\* C25 as stated: a packet between two addresses that the process's
\* local-network classifier (LOCAL_NETS) calls local changes no per-IP
\* accumulator of the tracker, while its length is added to the open bucket's
\* protocol total and IP-version total.
C25_LocalPairCreditsNoHost ==
    [][\A f \in Frames :
          (Ingested(f) /\ f.ip # 0 /\ tcurrent # <<>> /\ isLocal(f.src) /\ isLocal(f.dst)) =>
              /\ tcurrent'[1].hosts = tcurrent[1].hosts
              /\ ProtoBytes(tcurrent', f.l4) = ProtoBytes(tcurrent, f.l4) + PktLen(f)
              /\ IPVerBytes(tcurrent', IPVersion(f))
                     = IPVerBytes(tcurrent, IPVersion(f)) + PktLen(f)]_vars

\* --------------------------------------------------------------------------
\* the step is the capture collector's processing of frame f
SpanIngested(f) ==
    focus = "span" /\ log' = log (+) SetToBag({[f |-> f, gen |-> 0]})

\* the accumulators a with the length p and one packet added to RX if rx,
\* to TX if tx
Added(a, p, rx, tx) ==
    [rxBytes   |-> a.rxBytes + (IF rx THEN p ELSE 0),
     rxPackets |-> a.rxPackets + (IF rx THEN 1 ELSE 0),
     txBytes   |-> a.txBytes + (IF tx THEN p ELSE 0),
     txPackets |-> a.txPackets + (IF tx THEN 1 ELSE 0)]

\* C26: in capture mode an IP packet of attributed length P from a local
\* source to a remote destination adds P and one packet to TX only; from a
\* remote source to a local destination to RX only; between two local
\* addresses to both RX and TX; between two remote addresses it changes no
\* accumulator. No step makes any of the four accumulators smaller.
C26_ClassifiedByMembership ==
    [][/\ \A f \in Frames :
             (SpanIngested(f) /\ f.ip # 0) =>
                 LET P == PktLen(f)
                     srcLocal == isLocal(f.src)
                     dstLocal == isLocal(f.dst)
                 IN /\ (srcLocal /\ ~dstLocal) => acc' = Added(acc, P, FALSE, TRUE)
                    /\ (~srcLocal /\ dstLocal) => acc' = Added(acc, P, TRUE, FALSE)
                    /\ (srcLocal /\ dstLocal) => acc' = Added(acc, P, TRUE, TRUE)
                    /\ (~srcLocal /\ ~dstLocal) => acc' = acc
       /\ focus = "span" =>
             /\ acc'.rxBytes >= acc.rxBytes /\ acc'.rxPackets >= acc.rxPackets
             /\ acc'.txBytes >= acc.txBytes /\ acc'.txPackets >= acc.txPackets]_vars

\* a packet between two local addresses and a packet from a remote to a
\* local address have been counted
C26_Witness ==
    /\ focus = "span"
    /\ \E f, g \in Frames :
          /\ isLocal(f.src) /\ isLocal(f.dst) /\ ~isLocal(g.src) /\ isLocal(g.dst)
          /\ log = SetToBag({[f |-> f, gen |-> 0], [f |-> g, gen |-> 0]})
          /\ acc = [rxBytes |-> PktLen(f) + PktLen(g), rxPackets |-> 2,
                    txBytes |-> PktLen(f), txPackets |-> 1]

\* --------------------------------------------------------------------------
\* the sealed buckets g are those of h less some of the oldest, each as it
\* was, with at most the bucket sealed by this step after them
SealedKept(h, g, sealed) ==
    \E k \in 0..Len(h) :
        \/ g = SubSeq(h, k + 1, Len(h))
        \/ sealed # <<>> /\ g = Append(SubSeq(h, k + 1, Len(h)), sealed[1])

\* C27: a sealed bucket is immutable. No step changes the per-IP
\* accumulators, protocol totals or IP-version totals of a bucket in the
\* rolling window: a packet ingestion leaves the window as it is, and a
\* rotation only removes whole buckets from its old end and adds the bucket
\* it seals, with the contents it had when open.
C27_SealedImmutable ==
    [][focus = "talkers" =>
          /\ SealedKept(buckets, buckets', tcurrent)
          /\ (\E f \in Frames : Ingested(f)) => buckets' = buckets]_vars

\* a sealed bucket with traffic has since seen another rotation and the
\* ingestion of a packet into the open bucket
C27_Witness ==
    /\ focus = "talkers"
    /\ Len(buckets) >= 2 /\ buckets[1].hosts # <<>>
    /\ tcurrent # <<>> /\ tcurrent[1].hosts # <<>>

\* --------------------------------------------------------------------------
\* C28 as stated, for the tracker: processPacket is never kept waiting by a
\* caller of a query: there is no state in which it has a packet to account
\* for and waits for a lock that a query holds.
C28_IngestionNeverWaitsForQuery ==
    ~(focus = "locks" /\ tpc["capture"] = "want" /\ mu.readers # {})

\* the step writes the tracker's bucket state: the current-bucket reference,
\* the list of sealed buckets or the accumulators of a bucket
WritesBuckets == focus = "locks" /\ (tcurrent' # tcurrent \/ buckets' # buckets)

\* the goroutine taking the step holds Tracker.mu for writing
ByHolder == \E g \in Goroutines : tpc'[g] # tpc[g] /\ mu.writer = g

\* C29 as stated: no write to the tracker's bucket state is made without the
\* write lock while a query is running with the read lock held.
C29_NoUnlockedWriteDuringQuery ==
    [][(WritesBuckets /\ ~ByHolder) => mu.readers = {}]_vars

\* the reverse lookups dispatched for ip
LookupsOf(ip) == {l \in lookups : l.ip = ip}

\* how many times ip's placeholder was written
Placed(ip) == IF ip \in DOMAIN placed THEN placed[ip] ELSE 0

\* a lookup has stored a host name for ip
HostnameStored(ip) == ip \in DOMAIN dnsCache /\ dnsCache[ip] # Name(ip, FALSE)

\* q's call of resolveIP returns in this step
Returns(q) == focus = "dns" /\ tpc[q] \in {"resolve", "check"} /\ tpc'[q] = "idle"

\* C30: in any interleaving of calls of resolveIP, the placeholder of an
\* address is written exactly once, by the first call to find the address
\* missing under the write lock, and at most one reverse lookup is dispatched
\* for it; a call waits for no lookup (with dnsCacheMu free or its own, its
\* next step can be taken, and a lookup holds the lock for its store only),
\* and it returns the bare address until a lookup has stored a host name,
\* and that name from then on.
C30_OnePlaceholderOneLookup ==
    /\ [](focus = "dns" =>
             /\ \A ip \in Resolved :
                   /\ Placed(ip) = (IF ip \in DOMAIN dnsCache THEN 1 ELSE 0)
                   /\ Cardinality(LookupsOf(ip)) = Placed(ip)
             /\ \A q \in Callers :
                   (tpc[q] # "idle" /\ dnsCacheMu \in {"none", q}) =>
                       ENABLED (ResolveRead(q) \/ ResolveLock(q) \/ ResolveStore(q))
             /\ dnsCacheMu = "lookup" => ENABLED LookupStore)
    /\ [][\A q \in Callers :
             Returns(q) =>
                 LET ip == calls[q].ip
                 IN /\ calls'[q].name = dnsCache'[ip]
                    /\ ~HostnameStored(ip)' => calls'[q].name = Name(ip, FALSE)
                    /\ HostnameStored(ip)' =>
                          \E names \in LookupAddr(ip) \ {<<>>} :
                              calls'[q].name = TrimDot(names[1])]_vars

\* two calls for one address have both missed it in their first look; one
\* has stored the placeholder and dispatched the lookup, which is still on
\* its way, and the other now holds the write lock for its second look
C30_Witness ==
    /\ focus = "dns"
    /\ tpc["q2"] = "check" /\ tpc["q1"] = "idle"
    /\ calls["q1"].ip = calls["q2"].ip
    /\ calls["q1"].name = Name(calls["q1"].ip, FALSE)
    /\ Placed(calls["q2"].ip) = 1
    /\ \E l \in LookupsOf(calls["q2"].ip) : l.pc = "pending"

\* --------------------------------------------------------------------------
\* C31 as stated: in any interleaving of calls of DB.Lookup, the cache entry
\* of a key is written at most once and at most one lookup in the databases
\* is made for it, and a caller that has returned holds the stored result.
C31_OneWriteOneQuery ==
    focus = "geo" =>
        /\ \A ip \in Resolved : geoCount.writes[ip] <= 1 /\ geoCount.queries[ip] <= 1
        /\ \A q \in Callers :
              (tpc[q] = "idle" /\ geoLocal[q] # NilResult) =>
                  geoLocal[q] = geoCache[geoLocal[q].key]

\* --------------------------------------------------------------------------
\* the snapshot s was fetched entirely in one poll
OfOnePoll(s) ==
    \E k \in 1..MaxPolls : \A part \in DOMAIN s : s[part] = k

\* C32: a poll of an external backend that fails leaves the stored snapshot
\* as it was; a NextDNS poll replaces it only when all of its five fetches
\* succeed; so GetSummary is nil or a snapshot fetched entirely in one poll
\* that succeeded, the last such poll, and Available never goes from true to
\* false.
C32_FailedPollKeepsSnapshot ==
    /\ [](focus = "backend" => (Available => OfOnePoll(GetSummary[1])))
    /\ [][focus = "backend" =>
             /\ Available => Available'
             /\ \/ GetSummary' = GetSummary
                \/ /\ GetSummary' # <<>>
                   /\ \A part \in DOMAIN GetSummary'[1] : GetSummary'[1][part] = client'.polls]_vars

\* a NextDNS client whose second poll succeeded has since made a poll that
\* failed and still has the snapshot of the second
C32_Witness ==
    /\ focus = "backend" /\ client.kind = "nextdns" /\ client.polls = 3
    /\ Available /\ GetSummary[1][1] = 2

\* C38 as stated: whatever the number and the interleaving of the calls of
\* Stop on a collector, the tracker or a polling client, stopCh is closed
\* once and no call fails.
C38_StopClosesOnce ==
    focus = "backend" => ~client.panicked /\ client.closes <= 1

\* C39: the detection of the API variant by the UniFi client goes one way.
\* An undetected client is marked detected by exactly the logins that
\* succeed, the UniFi OS endpoint first (unifiOS when it answers 200) and the
\* legacy endpoint otherwise, and stays undetected when both fail; a
\* detected client keeps detected and unifiOS whatever a login returns, and
\* no poll changes them.
C39_DetectionOneWay ==
    /\ [](focus = "backend" /\ client.kind = "unifi" =>
             \A osOk, legacyOk \in BOOLEAN :
                 LET in == Login(client, osOk, legacyOk)
                 IN IF client.detected
                    THEN in.c.detected /\ in.c.unifiOS = client.unifiOS
                    ELSE /\ in.c.detected <=> in.ok
                         /\ in.ok <=> (osOk \/ legacyOk)
                         /\ in.ok => (in.c.unifiOS <=> osOk)
                         /\ ~in.ok => in.c = client)
    /\ [][focus = "backend" /\ client.detected =>
             client'.detected /\ client'.unifiOS = client.unifiOS]_vars

\* a UniFi client that found a legacy controller at its second poll, after a
\* first poll in which no snapshot was stored, has made a third poll that
\* failed and is still marked detected, legacy
C39_Witness ==
    /\ focus = "backend" /\ client.kind = "unifi" /\ client.polls = 3
    /\ client.detected /\ ~client.unifiOS
    /\ Available /\ GetSummary[1].devices = 2

\* C33: the category of a name is detected at most once and kept for the
\* life of the process: whatever sysfs says at a later poll, and whether or
\* not the interface was gone in between, the cache entry stays what it was
\* and an interface that is in c.current carries the cached category.
C33_CategoryCachedForLife ==
    /\ [](focus = "types" =>
             /\ ifaceStat.detections <= 1
             /\ ifaceStat.IfaceType # <<>> =>
                   /\ ifaceStat.name \in DOMAIN ifaceTypeCache
                   /\ ifaceStat.IfaceType[1] = ifaceTypeCache[ifaceStat.name])
    /\ [][focus = "types" =>
             \A n \in DOMAIN ifaceTypeCache :
                 n \in DOMAIN ifaceTypeCache' /\ ifaceTypeCache'[n] = ifaceTypeCache[n]]_vars

\* tun0, detected as a vlan from its DEVTYPE, was seen at three polls and is
\* now gone from c.current with its category still cached, while its name
\* alone would make it a vpn
C33_Witness ==
    /\ focus = "types" /\ ifaceStat.name = <<"t", "u", "n", "0">>
    /\ ifaceStat.IfaceType = <<>> /\ ifaceStat.polls = 3
    /\ ifaceStat.name \in DOMAIN ifaceTypeCache
    /\ ifaceTypeCache[ifaceStat.name] = "vlan"

\* the category the ordered signals give to an interface, first match first:
\* the wireguard marker, the DEVTYPE table, the type code, and the name
\* (tun, tap, wg, ipsec: vpn; ppp, wwan, lte: ppp; dotted: vlan)
FirstMatch(name, sys) ==
    LET n == ToLower(name)
    IN IF sys.wireguard THEN "vpn"
       ELSE IF ByDevType(sys.devtype) # "" THEN ByDevType(sys.devtype)
       ELSE IF ByArpType(sys.type) # "" THEN ByArpType(sys.type)
       ELSE IF \/ HasPrefix(n, <<"t", "u", "n">>) \/ HasPrefix(n, <<"t", "a", "p">>)
               \/ HasPrefix(n, <<"w", "g">>)
               \/ HasPrefix(n, <<"i", "p", "s", "e", "c">>) THEN "vpn"
       ELSE IF \/ HasPrefix(n, <<"p", "p", "p">>)
               \/ HasPrefix(n, <<"w", "w", "a", "n">>)
               \/ HasPrefix(n, <<"l", "t", "e">>) THEN "ppp"
       ELSE IF ContainsChar(n, ".") THEN "vlan"
       ELSE "physical"

\* C34 as stated: the category detected for an interface is the one of the
\* first of the ordered signals that matches, the name prefixes wg and ipsec
\* giving vpn like tun and tap.
C34_FirstMatchWins ==
    focus = "types" =>
        \A n \in DOMAIN ifaceTypeCache :
            ifaceTypeCache[n] = FirstMatch(n, ifaceStat.sys)

\* the sum of the values of m over keys
RECURSIVE SumOver(_, _)
SumOver(m, keys) ==
    IF keys = {} THEN 0
    ELSE LET k == CHOOSE x \in keys : TRUE IN m[k] + SumOver(m, keys \ {k})

Total(m) == SumOver(m, DOMAIN m)
HostTotal(hosts) == SumOver([ip \in DOMAIN hosts |-> hosts[ip].bytes], DOMAIN hosts)

\* the total length of the IP packets of E
RECURSIVE LengthOf(_)
LengthOf(E) ==
    IF E = {} THEN 0
    ELSE LET e == CHOOSE x \in E : TRUE IN log[e] * PktLen(e.f) + LengthOf(E \ {e})

\* the IP packets ingested into the bucket opened after gen rotations
IngestedInto(gen) == {e \in BagToSet(log) : e.gen = gen /\ e.f.ip # 0}

\* the buckets, sealed and open, each with the rotations that preceded it
AllBuckets ==
    LET all == buckets \o tcurrent
        base == ticks - Len(buckets)
    IN {[b |-> all[k], gen |-> base + k - 1] : k \in 1..Len(all)}

\* C35: in every bucket, open or sealed, the protocol byte totals and the
\* IP-version byte totals both add up to the total length of the IP packets
\* ingested into that bucket, and the per-IP byte accumulators add up to at
\* most twice that.
C35_BreakdownsAddUp ==
    (focus = "talkers" /\ tcurrent # <<>>) =>
        \A x \in AllBuckets :
            LET total == LengthOf(IngestedInto(x.gen))
            IN /\ Total(x.b.protoBytes) = total
               /\ Total(x.b.ipVerBytes) = total
               /\ HostTotal(x.b.hosts) <= 2 * total

\* a sealed bucket holds one packet between two remote hosts, counted twice
\* in the per-IP accumulators, and the open one a packet from a remote host
\* to a private one, counted once
C35_Witness ==
    /\ focus = "talkers" /\ tcurrent # <<>> /\ Len(buckets) = 1
    /\ Total(buckets[1].protoBytes) = 2 /\ HostTotal(buckets[1].hosts) = 4
    /\ Total(tcurrent[1].ipVerBytes) = 1 + IPv6HeaderLen
    /\ HostTotal(tcurrent[1].hosts) = 1 + IPv6HeaderLen

\* a rotation that pruned no sealed bucket
RotatedKeepingAll ==
    focus = "talkers" /\ ticks' = ticks + 1 /\ buckets' = buckets \o tcurrent

\* C36: a rotation that prunes no sealed bucket leaves what TopByVolume
\* returns and the protocol and IP-version breakdowns as they were, and
\* from a rotation until the next packet is ingested TopByBandwidth returns
\* no entry.
C36_RotationKeepsTotals ==
    /\ [][RotatedKeepingAll =>
             /\ \A n \in Requests : TopByVolume(n)' = TopByVolume(n)
             /\ GetProtocolBreakdown' = GetProtocolBreakdown
             /\ GetIPVersionBreakdown' = GetIPVersionBreakdown
             /\ \A n \in Requests : TopByBandwidth(n)' = {<<>>}]_vars
    /\ []((focus = "talkers" /\ ticks >= 1 /\ tcurrent # <<>> /\ IngestedInto(ticks) = {}) =>
             \A n \in Requests : TopByBandwidth(n) = {<<>>})

\* a bucket that held two remote hosts was sealed and nothing was pruned:
\* the breakdowns still count its bytes and no packet has come since
C36_Witness ==
    /\ focus = "talkers" /\ ticks = 1 /\ Len(buckets) = 1 /\ tcurrent # <<>>
    /\ Cardinality(DOMAIN buckets[1].hosts) = 2
    /\ IngestedInto(ticks) = {}
    /\ GetProtocolBreakdown = buckets[1].protoBytes
    /\ GetProtocolBreakdown # <<>>

\* the interfaces that have left c.current and still have a history
Removed == {n \in DOMAIN history : n \notin DOMAIN current /\ history[n] # <<>>}

\* C37: after a successful poll of the kernel-counter collector the names
\* with a current snapshot, the names with a baseline and the names of the
\* enumeration are the same set; no poll deletes a history: the history of
\* an interface that is gone stays as it was, GetHistory returns it,
\* GetSparklines draws it like any other, and a later poll changes a history
\* only by appending a point after the points it holds (and pruning).
C37_TrackedSetsAgreeHistoryStays ==
    /\ [](focus = "proc" =>
             /\ DOMAIN current = DOMAIN previous
             /\ \A n \in Removed :
                   /\ n \in DOMAIN ProcGetHistory /\ ProcGetHistory[n] = history[n]
                   /\ \A d \in Durations, m \in Sizes :
                         DropOld(history[n], UnixMilli(Add(Now, -d))) # <<>> =>
                             /\ n \in DOMAIN ProcGetSparklines(d, m)
                             /\ ProcGetSparklines(d, m)[n] =
                                   Downsample(DropOld(history[n], UnixMilli(Add(Now, -d))), m))
    /\ [][Polled =>
             /\ \A stats \in ProcNetDev :
                   pollTable(stats) =>
                       DOMAIN current' = DOMAIN stats /\ DOMAIN previous' = DOMAIN stats
             /\ \A n \in DOMAIN history :
                   /\ n \in DOMAIN history'
                   /\ n \notin DOMAIN current' => history'[n] = history[n]
                   /\ Extends(history[n], history'[n])]_vars

\* wg0 has left the enumeration: it has no snapshot and no baseline, and its
\* history is still returned by GetHistory and drawn by GetSparklines
C37_Witness ==
    /\ focus = "proc" /\ ~pollErr
    /\ "wg0" \in Removed /\ "wg0" \notin DOMAIN previous
    /\ "wg0" \in DOMAIN ProcGetHistory
    /\ "wg0" \in DOMAIN ProcGetSparklines(HistoryMaxAge, HistoryPruneAt)

====
